---- MODULE Spec2Model ----
(***************************************************************************)
(* Session-to-process correlation and streaming layer of claude-artifacts: *)
(*   - PTYManager            (src/services/ptyManager.ts)                  *)
(*   - terminal tracking and ClaudeService (claudeService.ts)              *)
(*   - SessionMonitor        (services/sessionMonitor.ts)                  *)
(* Strings whose characters matter (session ids, terminal names, commands) *)
(* are sequences of one-character strings.  PTY output chunks, where only  *)
(* identity and length matter, are records (see RawChunk).                 *)
(***************************************************************************)
EXTENDS Integers, Sequences, FiniteSets, TLC

(***************************************************************************)
(* Bounds of the model.                                                    *)
(***************************************************************************)
\* processes the PTY manager may create in one run
MaxProcs == 2
\* output chunks emitted in one run: SpecPtyOut, SpecPty
MaxChunks == 4
MaxLifeChunks == 1
\* terminals created and ClaudeService calls made in one run
MaxTerms == 2
MaxSends == 1
\* writes to one process that it has not read yet
MaxWrites == 1
\* transcript lines per file, and processTranscriptUpdate calls
MaxLines == 2
MaxRuns == 3
\* truncations of a transcript
MaxTruncs == 1
\* the events raised while single records are classified
MaxClassify == 3
\* The program's MAX_BUFFER_SIZE is 10000 entries (ptyManager.ts:25); the
\* model runs with a small ring so that the overflow happens within MaxChunks.
MAX_BUFFER_SIZE == 2

(***************************************************************************)
(* Program constants.                                                      *)
(***************************************************************************)
MAX_LINE_LENGTH == 10000
\* length of the marker '\n[... line truncated]\n'
MarkerLen == 22
MaxIdLen == 128
\* the line length processTranscriptUpdate assumes (sessionMonitor.ts:128)
AvgLineBytes == 100

(***************************************************************************)
(* Generic helpers.                                                        *)
(***************************************************************************)
None == "none"

Min(a, b) == IF a < b THEN a ELSE b
Max(a, b) == IF a > b THEN a ELSE b

MapSet(m, k, v) == [x \in DOMAIN m \cup {k} |-> IF x = k THEN v ELSE m[x]]
MapDelete(m, k) == [x \in DOMAIN m \ {k} |-> m[x]]
EmptyMap == [x \in {} |-> None]

Range(s) == {s[i] : i \in DOMAIN s}
Last(s) == s[Len(s)]

(***************************************************************************)
(* Character strings.                                                      *)
(***************************************************************************)
LowerChars == {"a","b","c","d","e","f","g","h","i","j","k","l","m",
               "n","o","p","q","r","s","t","u","v","w","x","y","z"}
UpperChars == {"A","B","C","D","E","F","G","H","I","J","K","L","M",
               "N","O","P","Q","R","S","T","U","V","W","X","Y","Z"}
DigitChars == {"0","1","2","3","4","5","6","7","8","9"}

\* the character class of /^[a-zA-Z0-9_-]+$/
IdChars == LowerChars \cup UpperChars \cup DigitChars \cup {"_", "-"}

UpperToLower == [c \in UpperChars |->
  CASE c = "A" -> "a" [] c = "B" -> "b" [] c = "C" -> "c" [] c = "D" -> "d"
    [] c = "E" -> "e" [] c = "F" -> "f" [] c = "G" -> "g" [] c = "H" -> "h"
    [] c = "I" -> "i" [] c = "J" -> "j" [] c = "K" -> "k" [] c = "L" -> "l"
    [] c = "M" -> "m" [] c = "N" -> "n" [] c = "O" -> "o" [] c = "P" -> "p"
    [] c = "Q" -> "q" [] c = "R" -> "r" [] c = "S" -> "s" [] c = "T" -> "t"
    [] c = "U" -> "u" [] c = "V" -> "v" [] c = "W" -> "w" [] c = "X" -> "x"
    [] c = "Y" -> "y" [] c = "Z" -> "z"]

\* a comparison that does not fold the case
toLowerCase_Identity(s) == s
toLowerCase(s) == [i \in 1..Len(s) |->
  IF s[i] \in UpperChars THEN UpperToLower[s[i]] ELSE s[i]]

\* String.prototype.includes: sub occurs in s as a contiguous substring
includes(s, sub) ==
  \E i \in 0..(Len(s) - Len(sub)) :
    \A j \in 1..Len(sub) : s[i + j] = sub[j]

(***************************************************************************)
(* PTY output chunks.  A chunk is [id, keep, marker]: the first `keep`     *)
(* characters of the string the process emitted as chunk number `id`,      *)
(* followed by the truncation marker when `marker` holds.                  *)
(***************************************************************************)
RawChunk(id, len) == [id |-> id, keep |-> len, marker |-> FALSE]
length(c) == c.keep + (IF c.marker THEN MarkerLen ELSE 0)
\* data.substring(0, n)
substring0(c, n) == [c EXCEPT !.keep = Min(c.keep, Max(n, 0))]
\* data + '\n[... line truncated]\n'
plusMarker(c) == [c EXCEPT !.marker = TRUE]

\* lengths of the chunks a process emits
ChunkLens == {MAX_LINE_LENGTH, MAX_LINE_LENGTH + 1}

(***************************************************************************)
(* PTYManager                                                              *)
(***************************************************************************)
\* session ids offered to the manager: two well-formed ones and three that
\* fail the identifier check (a character outside the set, empty, too long)
SessA == <<"s", "1">>
SessB == <<"B", "_">>
BadId == <<"b", "a", "d", " ", "i", "d", "!">>
EmptyId == << >>
LongId == [i \in 1..(MaxIdLen + 1) |-> "a"]
SessionIds == {SessA, SessB, BadId, EmptyId}
\* the identifiers the manager's methods are called with where the error of
\* each call is followed
CallIds == SessionIds \cup {LongId}
Listeners == {"l1", "l2"}
Procs == 1..MaxProcs

VARIABLES
  \* PTYManager.sessions: session id -> process (the PTYSession object)
  sessions,
  \* number of processes created so far
  spawned,
  \* per process: "none" | "running" | "killed" (kill sent, exit pending) | "exited"
  procState,
  \* PTYSession.sessionId, outputBuffer, listeners of each process's session object
  procSid, outputBuffer, listeners,
  \* what has been written to each process's input
  ptyInput,
  \* pending setTimeout callbacks of the onExit handlers
  timers,
  \* history: raw chunks in emission order (index = chunk id), processed chunks
  \* per process, the chunk each listener was last called with (<<c>>, or << >>
  \* before its first call), how each process's session left the registry
  emittedRaw, emitted, lastDelivered, disposedBy,
  \* cols and rows of each process's terminal
  ptySize,
  \* the value a client holds from its last getOutputBuffer call: [ref, val],
  \* where ref = 0 for an array of its own with the elements val, and ref = p
  \* for the array that is process p's outputBuffer
  snapshot,
  \* history: the error the last call of the manager threw ("none": it returned)
  threw

\* the manager and its processes
ptyProgVars == <<sessions, spawned, procState, procSid, outputBuffer, listeners,
                 ptyInput, timers, ptySize>>
ptyVars == <<ptyProgVars, snapshot, emittedRaw, emitted, lastDelivered, disposedBy,
             threw>>

VARIABLES
  \* vscode.window.terminals: the open terminals, in creation order
  terminals,
  \* name of every terminal created so far (index = terminal)
  termName,
  \* vscode.window.activeTerminal, 0 when there is none
  activeTerminal,
  \* sessionTerminalMap: session id -> terminal
  sessionTerminalMap,
  \* the installed onDidCloseTerminal listeners, each [sid, terminal]
  terminalDisposables,
  \* the sendToTerminal / sendRawSequence calls: per call its target, the
  \* sequences still to send, its position and the terminal it has chosen
  sendState, nSends,
  \* history: the target and the terminal of the last write (terminal = 0
  \* before the first)
  lastWrite,
  \* history: a terminal has closed while a session was bound to it
  closedBound,
  \* history: the [sid, terminal] pairs _findClaudeTerminal has registered
  \* because the terminal's name contains the session id
  matched

termVars == <<terminals, termName, activeTerminal, sessionTerminalMap,
              terminalDisposables, sendState, nSends, lastWrite, closedBound,
              matched>>

VARIABLES
  \* the transcript file of each session: its lines, oldest first
  file,
  \* SessionMonitor._watchers (the sessions watched) and _lastProcessedState
  watchers, lastProcessedState,
  \* per session the FileSystemWatcher objects created for it and not disposed,
  \* each given by the project path it was created with, oldest first
  installed,
  \* the processTranscriptUpdate calls: per call its session, its position, what
  \* readFile and stat returned, and the indices of the lines still to analyze
  runs, nRuns,
  \* how many times a transcript was truncated or rewritten in place
  nTruncs,
  \* history: per session the file indices of the lines handed to JSON.parse, in
  \* order, and the events raised (captureScreenshot calls); whether a file ever
  \* shrank, monitoring was stopped after a state was saved, or a notification
  \* arrived while an earlier one of the same session was being processed
  classified, events, disturbed,
  \* history: the record analyzeTranscriptEntry was last applied to on its own
  analyzed

monVars == <<file, watchers, lastProcessedState, installed, runs, nRuns, nTruncs,
             classified, events, disturbed, analyzed>>

\* what the actions of one component leave alone
ptyFrame == UNCHANGED <<termVars, monVars>>
termFrame == UNCHANGED <<ptyVars, monVars, matched>>
monFrame == UNCHANGED <<ptyVars, termVars, analyzed>>

\* how a process's session left the registry: how = "none" | "explicit" |
\* "timer", for a timer the process whose exit scheduled it, and how many
\* chunks the process had emitted by then
NotDisposed == [how |-> None, by |-> 0, at |-> 0]
Disposed(how, by, p) == [how |-> how, by |-> by, at |-> Len(emitted[p])]

\* cols x rows: what spawn asks for, what a client may resize to, and the
\* size of a process that does not exist
SpawnSize == [cols |-> 80, rows |-> 30]
OtherSize == [cols |-> 120, rows |-> 40]
NoSize == [cols |-> 0, rows |-> 0]

NoSnapshot == [ref |-> 0, val |-> << >>]

\* the messages of the errors the manager throws
InvalidId == "Invalid session ID format"
AlreadyExists == "PTY session already exists"
NotFound == "PTY session not found"
\* the errors of node-pty, which spawn lets through
SpawnFailed == "pty.spawn failed"
WriteFailed == "ptyProcess.write failed"

\* the history variable threw after a call that returned, and after a call
\* that threw e; rec: whether the specification keeps this history
returned == threw' = None
throws(e, rec) == threw' = IF rec THEN e ELSE None

InitPty ==
  /\ sessions = EmptyMap
  /\ spawned = 0
  /\ procState = [p \in Procs |-> "none"]
  /\ procSid = [p \in Procs |-> EmptyId]
  /\ outputBuffer = [p \in Procs |-> << >>]
  /\ listeners = [p \in Procs |-> {}]
  /\ ptyInput = [p \in Procs |-> << >>]
  /\ timers = {}
  /\ emittedRaw = << >>
  /\ emitted = [p \in Procs |-> << >>]
  /\ lastDelivered = [l \in Listeners |-> << >>]
  /\ disposedBy = [p \in Procs |-> NotDisposed]
  /\ ptySize = [p \in Procs |-> NoSize]
  /\ snapshot = NoSnapshot
  /\ threw = None

\* PTYManager.isValidSessionId: /^[a-zA-Z0-9_-]+$/.test(id) && id.length <= 128
isValidSessionId_NoLengthLimit(id) ==
  /\ Len(id) > 0
  /\ \A i \in 1..Len(id) : id[i] \in IdChars
isValidSessionId(id) ==
  /\ Len(id) > 0
  /\ Len(id) <= MaxIdLen
  /\ \A i \in 1..Len(id) : id[i] \in IdChars

\* this.sessions.get(sessionId): the session's process, 0 for undefined
getSession_AnySession(id) ==
  IF id \in DOMAIN sessions THEN sessions[id]
  ELSE IF sessions # EmptyMap THEN sessions[CHOOSE s \in DOMAIN sessions : TRUE]
  ELSE 0
getSession(id) == IF id \in DOMAIN sessions THEN sessions[id] ELSE 0

\* the onData handler's truncation (ptyManager.ts:69-72)
processData_OffByOne(data) ==
  IF length(data) >= MAX_LINE_LENGTH
    THEN plusMarker(substring0(data, MAX_LINE_LENGTH))
    ELSE data
processData_NoTruncate(data) == data
processData(data) ==
  IF length(data) > MAX_LINE_LENGTH
    THEN plusMarker(substring0(data, MAX_LINE_LENGTH))
    ELSE data

\* push, then shift once the buffer is over MAX_BUFFER_SIZE (ptyManager.ts:75-78)
pushBounded_NoShift(buf, c) == Append(buf, c)
pushBounded_DropNewest(buf, c) ==
  LET pushed == Append(buf, c)
  IN IF Len(pushed) > MAX_BUFFER_SIZE
       THEN SubSeq(pushed, 1, Len(pushed) - 1)
       ELSE pushed
pushBounded(buf, c) ==
  LET pushed == Append(buf, c)
  IN IF Len(pushed) > MAX_BUFFER_SIZE THEN Tail(pushed) ELSE pushed

\* PTYManager.dispose on the registry state st = [sessions, procState, listeners]
dispose_KeepEntry(st, id) ==
  IF id \in DOMAIN st.sessions
    THEN LET p == st.sessions[id]
         IN [st EXCEPT !.procState[p] = IF @ = "running" THEN "killed" ELSE @,
                       !.listeners[p] = {}]
    ELSE st
dispose_KeepListeners(st, id) ==
  IF id \in DOMAIN st.sessions
    THEN LET p == st.sessions[id]
         IN [st EXCEPT !.sessions = MapDelete(@, id),
                       !.procState[p] = IF @ = "running" THEN "killed" ELSE @]
    ELSE st
dispose_ClearsOnMiss(st, id) ==
  IF id \in DOMAIN st.sessions
    THEN LET p == st.sessions[id]
         IN [sessions  |-> MapDelete(st.sessions, id),
             procState |-> [st.procState EXCEPT ![p] =
                              IF @ = "running" THEN "killed" ELSE @],
             listeners |-> [st.listeners EXCEPT ![p] = {}]]
    ELSE [st EXCEPT !.listeners = [q \in Procs |-> {}]]
dispose(st, id) ==
  IF id \in DOMAIN st.sessions
    THEN LET p == st.sessions[id]
         IN [sessions  |-> MapDelete(st.sessions, id),
             \* kill(): a live process is signalled, a dead one throws (ignored)
             procState |-> [st.procState EXCEPT ![p] =
                              IF @ = "running" THEN "killed" ELSE @],
             listeners |-> [st.listeners EXCEPT ![p] = {}]]
    ELSE st

RECURSIVE disposeEach(_, _)
disposeEach(st, ids) ==
  IF ids = {} THEN st
  ELSE LET id == CHOOSE x \in ids : TRUE
       IN disposeEach(dispose(st, id), ids \ {id})

registry == [sessions |-> sessions, procState |-> procState, listeners |-> listeners]

\* the two checks at the head of spawn (ptyManager.ts:34-41) both pass
spawnAccepted(id) == isValidSessionId(id) /\ id \notin DOMAIN sessions

\* PTYManager.spawn
Spawn(id, args, procs, rec) ==
  \/ /\ ~isValidSessionId(id)
     /\ throws(InvalidId, rec)
     /\ UNCHANGED <<ptyProgVars, snapshot, emittedRaw, emitted, lastDelivered,
                    disposedBy>>
     /\ ptyFrame
  \/ /\ isValidSessionId(id)
     /\ id \in DOMAIN sessions
     /\ throws(AlreadyExists, rec)
     /\ UNCHANGED <<ptyProgVars, snapshot, emittedRaw, emitted, lastDelivered,
                    disposedBy>>
     /\ ptyFrame
  \/ /\ spawnAccepted(id)
     /\ spawned + 1 \in procs
     /\ LET p == spawned + 1
        IN /\ spawned' = p
           /\ procState' = [procState EXCEPT ![p] = "running"]
           /\ procSid' = [procSid EXCEPT ![p] = id]
           /\ ptySize' = [ptySize EXCEPT ![p] = SpawnSize]
           /\ outputBuffer' = [outputBuffer EXCEPT ![p] = << >>]
           /\ listeners' = [listeners EXCEPT ![p] = {}]
           /\ sessions' = MapSet(sessions, id, p)
           /\ ptyInput' = [ptyInput EXCEPT ![p] =
                IF Len(args) > 0
                  THEN <<[kind |-> "command", args |-> args]>>
                  ELSE << >>]
     /\ returned
     /\ UNCHANGED <<timers, snapshot, emittedRaw, emitted, lastDelivered, disposedBy>>
     /\ ptyFrame

\* PTYManager.spawn when pty.spawn throws: nothing has been created or stored
SpawnProcessFails(id) ==
  /\ spawnAccepted(id)
  /\ threw' = SpawnFailed
  /\ UNCHANGED <<ptyProgVars, snapshot, emittedRaw, emitted, lastDelivered,
                 disposedBy>>
  /\ ptyFrame

\* PTYManager.spawn when ptyProcess.write(command) throws: the process runs,
\* its handlers are attached and this.sessions.set has been executed
SpawnWriteFails(id, args, procs) ==
  /\ spawnAccepted(id)
  /\ Len(args) > 0
  /\ spawned + 1 \in procs
  /\ LET p == spawned + 1
     IN /\ spawned' = p
        /\ procState' = [procState EXCEPT ![p] = "running"]
        /\ procSid' = [procSid EXCEPT ![p] = id]
        /\ ptySize' = [ptySize EXCEPT ![p] = SpawnSize]
        /\ outputBuffer' = [outputBuffer EXCEPT ![p] = << >>]
        /\ listeners' = [listeners EXCEPT ![p] = {}]
        /\ sessions' = MapSet(sessions, id, p)
        /\ ptyInput' = [ptyInput EXCEPT ![p] = << >>]
  /\ threw' = WriteFailed
  /\ UNCHANGED <<timers, snapshot, emittedRaw, emitted, lastDelivered, disposedBy>>
  /\ ptyFrame

\* PTYManager.newSession / resumeSession
NewSession(id, procs, rec) == Spawn(id, << >>, procs, rec)
ResumeSession(id, procs, rec) == Spawn(id, <<"--resume", id>>, procs, rec)

\* session.listeners.forEach(listener => listener(processedData)): what each
\* listener was last called with, after the listeners ls were called with c
notifyListeners_OnlyOne(ls, last, c) ==
  [l \in Listeners |->
     IF ls # {} /\ l = (CHOOSE x \in ls : TRUE) THEN <<c>> ELSE last[l]]
notifyListeners(ls, last, c) ==
  [l \in Listeners |-> IF l \in ls THEN <<c>> ELSE last[l]]

\* ptyProcess.onData handler
OnData(p, len, maxChunks) ==
  /\ procState[p] \in {"running", "killed"}
  /\ Len(emittedRaw) < maxChunks
  /\ LET data == RawChunk(Len(emittedRaw) + 1, len)
         processedData == processData(data)
     IN /\ emittedRaw' = Append(emittedRaw, data)
        /\ outputBuffer' = [outputBuffer EXCEPT ![p] = pushBounded(@, processedData)]
        /\ emitted' = [emitted EXCEPT ![p] = Append(@, processedData)]
        /\ lastDelivered' = notifyListeners(listeners[p], lastDelivered, processedData)
  /\ returned
  /\ UNCHANGED <<sessions, spawned, procState, procSid, listeners, ptyInput,
                 timers, ptySize, snapshot, disposedBy>>
  /\ ptyFrame

\* ptyProcess.onExit handler: schedules dispose(sessionId) after CLEANUP_TIMEOUT
OnExit(p) ==
  /\ procState[p] \in {"running", "killed"}
  /\ procState' = [procState EXCEPT ![p] = "exited"]
  /\ timers' = timers \cup {[sid |-> procSid[p], proc |-> p]}
  \* the process is gone, and its unread input with it
  /\ ptyInput' = [ptyInput EXCEPT ![p] = << >>]
  /\ returned
  /\ UNCHANGED <<sessions, spawned, procSid, outputBuffer, listeners, ptySize,
                 snapshot, emittedRaw, emitted, lastDelivered, disposedBy>>
  /\ ptyFrame

ApplyDispose(id, how, by) ==
  LET st == dispose(registry, id)
      gone == DOMAIN sessions \ DOMAIN st.sessions
  IN /\ sessions' = st.sessions
     /\ procState' = st.procState
     /\ listeners' = st.listeners
     /\ disposedBy' = [p \in Procs |->
          IF \E s \in gone : sessions[s] = p
            THEN Disposed(how, by, p) ELSE disposedBy[p]]

\* the setTimeout callback of onExit: this.dispose(sessionId)
TimerFire(t) ==
  /\ t \in timers
  /\ timers' = timers \ {t}
  /\ ApplyDispose(t.sid, "timer", t.proc)
  /\ returned
  /\ UNCHANGED <<spawned, procSid, outputBuffer, ptyInput, ptySize, snapshot,
                 emittedRaw, emitted, lastDelivered>>
  /\ ptyFrame

\* PTYManager.dispose called by a client (ClaudeSessionPanel.dispose)
Dispose(id) ==
  /\ ApplyDispose(id, "explicit", 0)
  /\ returned
  /\ UNCHANGED <<spawned, procSid, outputBuffer, ptyInput, timers, ptySize,
                 snapshot, emittedRaw, emitted, lastDelivered>>
  /\ ptyFrame

\* PTYManager.disposeAll
DisposeAll ==
  /\ sessions # EmptyMap
  /\ LET st == disposeEach(registry, DOMAIN sessions)
     IN /\ sessions' = st.sessions
        /\ procState' = st.procState
        /\ listeners' = st.listeners
        /\ disposedBy' = [p \in Procs |->
             IF \E s \in DOMAIN sessions \ DOMAIN st.sessions : sessions[s] = p
               THEN Disposed("explicit", 0, p) ELSE disposedBy[p]]
  /\ returned
  /\ UNCHANGED <<spawned, procSid, outputBuffer, ptyInput, timers, ptySize,
                 snapshot, emittedRaw, emitted, lastDelivered>>
  /\ ptyFrame

\* PTYManager.kill
Kill(id) ==
  /\ id \in DOMAIN sessions
  /\ procState[sessions[id]] = "running"
  /\ procState' = [procState EXCEPT ![sessions[id]] = "killed"]
  /\ returned
  /\ UNCHANGED <<sessions, spawned, procSid, outputBuffer, listeners, ptyInput,
                 timers, ptySize, snapshot, emittedRaw, emitted, lastDelivered,
                 disposedBy>>
  /\ ptyFrame

\* PTYManager.addListener
AddListener(id, l, rec) ==
  \/ /\ getSession(id) = 0
     /\ throws(NotFound, rec)
     /\ UNCHANGED <<ptyProgVars, snapshot, emittedRaw, emitted, lastDelivered,
                    disposedBy>>
     /\ ptyFrame
  \/ /\ getSession(id) # 0
     /\ l \notin listeners[getSession(id)]
     /\ listeners' = [listeners EXCEPT ![getSession(id)] = @ \cup {l}]
     /\ returned
     /\ UNCHANGED <<sessions, spawned, procState, procSid, outputBuffer, ptyInput,
                    timers, ptySize, snapshot, emittedRaw, emitted, lastDelivered,
                    disposedBy>>
     /\ ptyFrame

\* PTYManager.removeListener
RemoveListener(id, l) ==
  /\ id \in DOMAIN sessions
  /\ l \in listeners[sessions[id]]
  /\ listeners' = [listeners EXCEPT ![sessions[id]] = @ \ {l}]
  /\ returned
  /\ UNCHANGED <<sessions, spawned, procState, procSid, outputBuffer, ptyInput,
                 timers, ptySize, snapshot, emittedRaw, emitted, lastDelivered,
                 disposedBy>>
  /\ ptyFrame

\* PTYManager.write (what is written to a process that has exited is lost and
\* not followed)
Write(id, data, rec) ==
  \/ /\ getSession(id) = 0
     /\ throws(NotFound, rec)
     /\ UNCHANGED <<ptyProgVars, snapshot, emittedRaw, emitted, lastDelivered,
                    disposedBy>>
     /\ ptyFrame
  \/ /\ getSession(id) # 0
     /\ Len(ptyInput[getSession(id)]) < MaxWrites
     /\ procState[getSession(id)] # "exited"
     /\ ptyInput' = [ptyInput EXCEPT ![getSession(id)] =
                       Append(@, [kind |-> "data", args |-> <<data>>])]
     /\ returned
     /\ UNCHANGED <<sessions, spawned, procState, procSid, outputBuffer, listeners,
                    timers, ptySize, snapshot, emittedRaw, emitted, lastDelivered,
                    disposedBy>>
     /\ ptyFrame

\* PTYManager.resize
Resize(id, size, rec) ==
  \/ /\ getSession(id) = 0
     /\ throws(NotFound, rec)
     /\ UNCHANGED <<ptyProgVars, snapshot, emittedRaw, emitted, lastDelivered,
                    disposedBy>>
     /\ ptyFrame
  \/ /\ getSession(id) # 0
     /\ ptySize[getSession(id)] # size
     /\ ptySize' = [ptySize EXCEPT ![getSession(id)] = size]
     /\ returned
     /\ UNCHANGED <<sessions, spawned, procState, procSid, outputBuffer, listeners,
                    ptyInput, timers, snapshot, emittedRaw, emitted, lastDelivered,
                    disposedBy>>
     /\ ptyFrame

\* The operations of the manager and the events of its processes (the
\* specifications are at the end of the module).  procs: the
\* processes that may be created; maxChunks, lens: the output emitted;
\* ls: the listeners clients subscribe; rec: whether threw is kept.
PtyNext(procs, maxChunks, lens, ls, rec) ==
  \/ \E id \in SessionIds : NewSession(id, procs, rec)
  \/ \E id \in SessionIds : ResumeSession(id, procs, rec)
  \/ \E p \in Procs, len \in lens : OnData(p, len, maxChunks)
  \/ \E p \in Procs : OnExit(p)
  \/ \E t \in timers : TimerFire(t)
  \/ \E id \in SessionIds : Dispose(id)
  \/ DisposeAll
  \/ \E id \in SessionIds : Kill(id)
  \/ \E id \in SessionIds, l \in ls : AddListener(id, l, rec)
  \/ \E id \in SessionIds, l \in ls : RemoveListener(id, l)

\* PTYManager.getOutputBuffer: [...session.outputBuffer], or [] for an unknown id
getOutputBuffer_Alias(id) ==
  IF getSession(id) # 0
    THEN [ref |-> getSession(id), val |-> << >>]
    ELSE NoSnapshot
getOutputBuffer(id) ==
  IF getSession(id) # 0
    THEN [ref |-> 0, val |-> outputBuffer[getSession(id)]]
    ELSE NoSnapshot

\* the elements of the array the client holds
snapshotValue ==
  IF snapshot.ref = 0 THEN snapshot.val ELSE outputBuffer[snapshot.ref]

\* a client calls getOutputBuffer and keeps the result
GetOutputBuffer(id) ==
  /\ snapshot' = getOutputBuffer(id)
  /\ returned
  /\ UNCHANGED <<ptyProgVars, emittedRaw, emitted, lastDelivered, disposedBy>>
  /\ ptyFrame

\* what a client pushes onto the array it holds
ClientChunk == [id |-> 0, keep |-> 1, marker |-> FALSE]

\* the client modifies the array it holds: result.push(...)
MutateSnapshot ==
  /\ ClientChunk \notin Range(snapshotValue)
  /\ IF snapshot.ref = 0
       THEN /\ snapshot' = [snapshot EXCEPT !.val = Append(@, ClientChunk)]
            /\ UNCHANGED outputBuffer
       ELSE /\ outputBuffer' = [outputBuffer EXCEPT ![snapshot.ref] =
                                  Append(@, ClientChunk)]
            /\ UNCHANGED snapshot
  /\ UNCHANGED <<sessions, spawned, procState, procSid, listeners, ptyInput, timers,
                 ptySize, emittedRaw, emitted, lastDelivered, disposedBy, threw>>
  /\ ptyFrame

\* write and resize, as the webview's message handler calls them
PtyIo(rec) ==
  \/ \E id \in CallIds : Write(id, "y", rec)
  \/ \E id \in CallIds : Resize(id, OtherSize, rec)

(***************************************************************************)
(* Terminal tracking and ClaudeService (claudeService.ts): which VS Code   *)
(* terminal receives the input meant for a session.                        *)
(***************************************************************************)
NameZsh == <<"z", "s", "h">>
NameNode == <<"n", "o", "d", "e">>
NameClaude == <<"c", "l", "a", "u", "d", "e">>
\* the name resumeSession gives its terminal: `Claude: ${session.id}`
ResumeName(id) == <<"C", "l", "a", "u", "d", "e", ":", " ">> \o id
\* names of the terminals the user opens by hand
UserTermNames == {NameZsh, NameNode}
\* sessions a ClaudeService instance targets
Targets == {SessA, SessB}
Terms == 1..MaxTerms
Sends == 1..MaxSends
\* the ClaudeService calls when two services, one per session, send at the
\* same time
Calls == 1..(MaxSends + 1)

IdleSend == [target |-> EmptyId, seqs |-> << >>, pc |-> "idle", terminal |-> 0]

NoWrite == [target |-> EmptyId, terminal |-> 0]

InitTerm ==
  /\ terminals = << >>
  /\ termName = << >>
  /\ activeTerminal = 0
  /\ sessionTerminalMap = EmptyMap
  /\ terminalDisposables = {}
  /\ sendState = [i \in Calls |-> IdleSend]
  /\ nSends = 0
  /\ lastWrite = NoWrite
  /\ closedBound = FALSE
  /\ matched = {}

isOpen(t) == \E k \in 1..Len(terminals) : terminals[k] = t

\* the tracking state: the map and its close listeners
tracking == [map |-> sessionTerminalMap, disp |-> terminalDisposables]

\* registerSessionTerminal
registerSessionTerminal(tr, sid, t) ==
  [map |-> MapSet(tr.map, sid, t),
   disp |-> tr.disp \cup {[sid |-> sid, terminal |-> t]}]

\* getSessionTerminal: the terminal (0: none) and the tracking state it leaves
getSessionTerminal(tr, sid) ==
  IF sid \notin DOMAIN tr.map
    THEN [terminal |-> 0, tr |-> tr]
    ELSE IF isOpen(tr.map[sid])
      THEN [terminal |-> tr.map[sid], tr |-> tr]
      ELSE [terminal |-> 0, tr |-> [tr EXCEPT !.map = MapDelete(tr.map, sid)]]

\* the first open terminal, in the order of vscode.window.terminals, whose
\* lower-cased name contains sub; 0 when there is none
firstNamed(sub) ==
  LET hits == {k \in 1..Len(terminals) :
                 includes(toLowerCase(termName[terminals[k]]), sub)}
  IN IF hits = {} THEN 0
     ELSE terminals[CHOOSE k \in hits : \A k2 \in hits : k <= k2]

\* the test of the active terminal at the end of _findClaudeTerminal
activeIsExpectedProgram ==
  /\ activeTerminal # 0
  /\ \/ toLowerCase(termName[activeTerminal]) = NameNode
     \/ includes(toLowerCase(termName[activeTerminal]), NameClaude)

\* ClaudeService._findClaudeTerminal for target session s
findClaudeTerminal_NameFirst(s) ==
  LET reg == getSessionTerminal(tracking, s)
      byId == firstNamed(toLowerCase(s))
      byClaude == firstNamed(NameClaude)
  IN IF byId # 0
       THEN [terminal |-> byId, tr |-> registerSessionTerminal(reg.tr, s, byId)]
     ELSE IF reg.terminal # 0 THEN [terminal |-> reg.terminal, tr |-> reg.tr]
     ELSE IF byClaude # 0 THEN [terminal |-> byClaude, tr |-> reg.tr]
     ELSE IF activeIsExpectedProgram
       THEN [terminal |-> activeTerminal, tr |-> reg.tr]
     ELSE [terminal |-> 0, tr |-> reg.tr]
findClaudeTerminal(s) ==
  LET reg == getSessionTerminal(tracking, s)
      byId == firstNamed(toLowerCase(s))
      byClaude == firstNamed(NameClaude)
  IN IF reg.terminal # 0 THEN [terminal |-> reg.terminal, tr |-> reg.tr]
     ELSE IF byId # 0
       THEN [terminal |-> byId, tr |-> registerSessionTerminal(reg.tr, s, byId)]
     ELSE IF byClaude # 0 THEN [terminal |-> byClaude, tr |-> reg.tr]
     ELSE IF activeIsExpectedProgram
       THEN [terminal |-> activeTerminal, tr |-> reg.tr]
     ELSE [terminal |-> 0, tr |-> reg.tr]

\* the choice of sendRawSequence: _findClaudeTerminal, else the active terminal,
\* which is then registered for the target session
chooseTerminal(s) ==
  LET found == findClaudeTerminal(s)
  IN IF found.terminal = 0 /\ activeTerminal # 0
       THEN [terminal |-> activeTerminal,
             tr |-> registerSessionTerminal(found.tr, s, activeTerminal)]
       ELSE found

\* sendRawSequence up to its first await, for call i with target s and the
\* sequences seqs still to send: choose the terminal and show it, or throw
ChooseAndShow(i, s, seqs) ==
  LET chosen == chooseTerminal(s)
      byName == /\ getSessionTerminal(tracking, s).terminal = 0
                /\ firstNamed(toLowerCase(s)) # 0
  IN /\ matched' = IF byName
                      THEN matched \cup {[sid |-> s, terminal |-> chosen.terminal]}
                      ELSE matched
     /\ sessionTerminalMap' = chosen.tr.map
     /\ terminalDisposables' = chosen.tr.disp
     /\ \/ /\ chosen.terminal = 0
           \* throws 'No terminal found for ...'
           /\ sendState' = [sendState EXCEPT ![i] = [IdleSend EXCEPT !.pc = "failed"]]
           /\ UNCHANGED activeTerminal
        \/ /\ chosen.terminal # 0
           /\ sendState' = [sendState EXCEPT ![i] =
                [target |-> s, seqs |-> seqs, pc |-> "write",
                 terminal |-> chosen.terminal]]
           \* terminal.show(true)
           /\ activeTerminal' = chosen.terminal

\* a ClaudeService call: sendToTerminal sends the text and then '\r',
\* sendArrowUp/Down and sendEnter send one raw sequence
StartSend(i, s, seqs) ==
  /\ i = nSends + 1
  /\ i \in Calls
  /\ nSends' = i
  /\ ChooseAndShow(i, s, seqs)
  /\ UNCHANGED <<terminals, termName, lastWrite, closedBound>>
  /\ UNCHANGED <<ptyVars, monVars>>

\* sendToTerminal's second sendRawSequence, after its delay
SendNext(i) ==
  /\ sendState[i].pc = "next"
  /\ ChooseAndShow(i, sendState[i].target, sendState[i].seqs)
  /\ UNCHANGED <<terminals, termName, nSends, lastWrite, closedBound>>
  /\ UNCHANGED <<ptyVars, monVars>>

\* the terminal the write of call i reaches (0: none).  Escape sequences and
\* '\r' go through workbench.action.terminal.sendSequence, which writes to the
\* terminal that is active now; text goes to terminal.sendText
writeDest(i) ==
  IF Head(sendState[i].seqs) \in {"esc", "cr"} THEN activeTerminal
  ELSE IF isOpen(sendState[i].terminal) THEN sendState[i].terminal ELSE 0

\* sendRawSequence after the focus delay: the write itself
SendWrite(i) ==
  /\ sendState[i].pc = "write"
  /\ LET me == sendState[i]
         dest == writeDest(i)
     IN /\ lastWrite' = IF dest = 0 THEN lastWrite
                        ELSE [target |-> me.target, terminal |-> dest]
        /\ sendState' = [sendState EXCEPT ![i] =
             IF Len(me.seqs) > 1
               THEN [me EXCEPT !.seqs = Tail(me.seqs), !.pc = "next", !.terminal = 0]
               ELSE [IdleSend EXCEPT !.pc = "done"]]
  /\ UNCHANGED <<terminals, termName, activeTerminal, sessionTerminalMap,
                 terminalDisposables, nSends, closedBound>>
  /\ termFrame

\* the user opens a terminal
OpenTerminal(name) ==
  /\ Len(termName) < MaxTerms
  /\ LET t == Len(termName) + 1
     IN /\ termName' = Append(termName, name)
        /\ terminals' = Append(terminals, t)
        /\ activeTerminal' = t
  /\ UNCHANGED <<sessionTerminalMap, terminalDisposables, sendState, nSends, lastWrite,
                 closedBound>>
  /\ termFrame

\* the claudeArtifacts.resumeSession command, while fewer than maxTerms
\* terminals have been created
ResumeSessionCommandUpTo(id, maxTerms) ==
  \/ /\ ~isValidSessionId(id)
     \* shows 'Invalid session ID format'
     /\ UNCHANGED termVars
     /\ termFrame
  \/ /\ isValidSessionId(id)
     /\ Len(termName) < maxTerms
     /\ LET t == Len(termName) + 1
            tr == registerSessionTerminal(tracking, id, t)
        IN /\ termName' = Append(termName, ResumeName(id))
           /\ terminals' = Append(terminals, t)
           /\ activeTerminal' = t
           /\ sessionTerminalMap' = tr.map
           /\ terminalDisposables' = tr.disp
     /\ UNCHANGED <<sendState, nSends, lastWrite, closedBound>>
     /\ termFrame

ResumeSessionCommand(id) == ResumeSessionCommandUpTo(id, MaxTerms)

\* the user focuses another terminal
FocusTerminal(t) ==
  /\ isOpen(t)
  /\ activeTerminal # t
  /\ activeTerminal' = t
  /\ UNCHANGED <<terminals, termName, sessionTerminalMap, terminalDisposables,
                 sendState, nSends, lastWrite, closedBound>>
  /\ termFrame

\* the first open terminal whose lower-cased name contains 'claude' or is
\* 'node'; 0 when there is none
firstClaudeOrNode ==
  LET hits == {k \in 1..Len(terminals) :
                 \/ includes(toLowerCase(termName[terminals[k]]), NameClaude)
                 \/ toLowerCase(termName[terminals[k]]) = NameNode}
  IN IF hits = {} THEN 0
     ELSE terminals[CHOOSE k \in hits : \A k2 \in hits : k <= k2]

\* PlanService._tryAutoRegisterTerminal, called when the plan of session s
\* is first seen
TryAutoRegisterTerminal(s) ==
  /\ LET reg == getSessionTerminal(tracking, s)
         tr == IF reg.terminal = 0 /\ firstClaudeOrNode # 0
                 THEN registerSessionTerminal(reg.tr, s, firstClaudeOrNode)
                 ELSE reg.tr
     IN /\ sessionTerminalMap' = tr.map
        /\ terminalDisposables' = tr.disp
  /\ UNCHANGED <<terminals, termName, activeTerminal, sendState, nSends, lastWrite,
                 closedBound>>
  /\ termFrame

\* the map after the close listeners of terminal t have run
afterClose_KeepMap(map, disp, t) == map
afterClose(map, disp, t) ==
  [s \in {x \in DOMAIN map : [sid |-> x, terminal |-> t] \notin disp} |-> map[s]]

\* a terminal closes: VS Code drops it and calls the onDidCloseTerminal listeners
CloseTerminal(t) ==
  /\ isOpen(t)
  /\ terminals' = SelectSeq(terminals, LAMBDA x : x # t)
  \* the name of a closed terminal is never read again
  /\ termName' = [termName EXCEPT ![t] = << >>]
  /\ sessionTerminalMap' = afterClose(sessionTerminalMap, terminalDisposables, t)
  /\ terminalDisposables' = {d \in terminalDisposables : d.terminal # t}
  /\ IF activeTerminal # t THEN UNCHANGED activeTerminal
     ELSE IF Len(terminals) = 1 THEN activeTerminal' = 0
     ELSE \E a \in Range(terminals) \ {t} : activeTerminal' = a
  /\ closedBound' = (closedBound \/ \E s \in DOMAIN sessionTerminalMap :
                                      sessionTerminalMap[s] = t)
  /\ UNCHANGED <<sendState, nSends, lastWrite>>
  /\ termFrame

TermNext ==
  \/ \E i \in Sends, s \in Targets : StartSend(i, s, <<"text", "cr">>)
  \/ \E i \in Sends, s \in Targets : StartSend(i, s, <<"esc">>)
  \/ \E i \in Sends : SendNext(i)
  \/ \E i \in Sends : SendWrite(i)
  \/ \E name \in UserTermNames : OpenTerminal(name)
  \/ \E id \in SessionIds : ResumeSessionCommand(id)
  \/ \E t \in Terms : FocusTerminal(t)
  \/ \E t \in Terms : CloseTerminal(t)
  \/ \E s \in Targets : TryAutoRegisterTerminal(s)

(***************************************************************************)
(* SessionMonitor (services/sessionMonitor.ts): tails the transcript of a  *)
(* session and raises an event for each new record.                        *)
(* A transcript line is [bytes, ok, entry]: its length in bytes without    *)
(* the newline, whether JSON.parse accepts it, and the parsed record.      *)
(* FileState.mtime is stored by the code and never read; it is left out.   *)
(***************************************************************************)
NoEntry == [type |-> None, name |-> None, file_path |-> << >>, command |-> << >>]
\* {"type":"tool_use","name":"Edit","input":{"file_path":"/a/b.ts"}}
EditLine == [bytes |-> 65, ok |-> TRUE,
             entry |-> [type |-> "tool_use", name |-> "Edit",
                        file_path |-> <<"a", "b.ts">>, command |-> << >>]]
\* {"type":"tool_use","name":"Bash","input":{"command":"npm test"}}
BashLine == [bytes |-> 64, ok |-> TRUE,
             entry |-> [type |-> "tool_use", name |-> "Bash", file_path |-> << >>,
                        command |-> <<"n", "p", "m", " ", "t", "e", "s", "t">>]]
\* {"type":"tool_use","name":"Edit","input":{"file_path":"/a/c.ts"}}: as long
\* as EditLine
EditOtherLine == [bytes |-> 65, ok |-> TRUE,
                  entry |-> [type |-> "tool_use", name |-> "Edit",
                             file_path |-> <<"a", "c.ts">>, command |-> << >>]]
\* an assistant message of 250 bytes, which raises no event
LongLine == [bytes |-> 250, ok |-> TRUE,
             entry |-> [type |-> "assistant", name |-> None, file_path |-> << >>,
                        command |-> << >>]]
\* a line cut off in the middle of a record
BadLine == [bytes |-> 20, ok |-> FALSE, entry |-> NoEntry]
Lines == {EditLine, BashLine, LongLine, BadLine}

\* the longest error text an event carries: content.substring(0, 200)
MaxErrorLen == 200
\* the content of a tool_result: a string (kind "string", its characters in
\* text), a list of content blocks (kind "array"), or none (kind "absent")
Text(t) == [kind |-> "string", text |-> t]
ArrayContent == [kind |-> "array", text |-> << >>]
NoContent == [kind |-> "absent", text |-> << >>]
ToolResult(isError, content) ==
  [type |-> "tool_result", name |-> None, file_path |-> << >>, command |-> << >>,
   is_error |-> isError, content |-> content]
ToolUse(name, filePath, command) ==
  [type |-> "tool_use", name |-> name, file_path |-> filePath, command |-> command]
\* "ERROR" followed by 200 more characters
LongErrorText == <<"E", "R", "R", "O", "R">> \o [i \in 1..MaxErrorLen |-> "x"]
\* the records analyzeTranscriptEntry is applied to
Entries ==
  { EditLine.entry, BashLine.entry, LongLine.entry,
    ToolUse("Write", <<"a", "c.ts">>, << >>),
    ToolUse("Edit", << >>, << >>),
    ToolUse("ExitPlanMode", << >>, << >>),
    ToolUse("Bash", << >>, <<"l", "s">>),
    ToolUse("Read", <<"a", "b.ts">>, << >>),
    ToolResult(TRUE, Text(<<"b", "o", "o", "m">>)),
    ToolResult(TRUE, ArrayContent),
    ToolResult(TRUE, NoContent),
    ToolResult(FALSE, Text(LongErrorText)),
    ToolResult(FALSE, Text(<<"o", "k">>)),
    ToolResult(FALSE, ArrayContent),
    ToolResult(FALSE, NoContent) }

Runs == 1..MaxRuns
\* a call of processTranscriptUpdate: its position and what it has read; and,
\* as history, how it went: "truncated" (saved state discarded), "unchanged"
\* (skipped), "processed" (state saved, new lines handled) or "failed" (the
\* read threw)
IdleRun == [sid |-> EmptyId, pc |-> "idle", haveContent |-> FALSE, content |-> << >>,
            haveStats |-> FALSE, size |-> 0, todo |-> << >>, outcome |-> None]
DoneRun(s, o) == [IdleRun EXCEPT !.sid = s, !.pc = "done", !.outcome = o]

InitMon ==
  /\ file = [s \in Targets |-> << >>]
  /\ watchers = {}
  /\ installed = [s \in Targets |-> << >>]
  /\ lastProcessedState = EmptyMap
  /\ runs = [r \in Runs |-> IdleRun]
  /\ nRuns = 0
  /\ nTruncs = 0
  /\ classified = [s \in Targets |-> << >>]
  /\ events = << >>
  /\ disturbed = FALSE
  /\ analyzed = NoEntry

RECURSIVE byteSize(_)
\* stats.size: every line is followed by a newline
byteSize(content) ==
  IF content = << >> THEN 0
  ELSE content[1].bytes + 1 + byteSize(Tail(content))

\* crypto.createHash('sha256').update(content).digest('hex'): equal exactly
\* for equal contents
sha256_SizeOnly(content) == byteSize(content)
sha256(content) == content

\* the calls of processTranscriptUpdate for s that have not returned
inFlight(s) == {r \in Runs : runs[r].sid = s /\ runs[r].pc \in {"reading", "analyzing"}}

\* path.basename
basename(path) == path[Len(path)]

testKeywords ==
  { <<"t","e","s","t">>, <<"n","p","m"," ","t","e","s","t">>, <<"j","e","s","t">>,
    <<"m","o","c","h","a">>, <<"p","y","t","e","s","t">>,
    <<"g","o"," ","t","e","s","t">>, <<"c","a","r","g","o"," ","t","e","s","t">>,
    <<"m","v","n"," ","t","e","s","t">> }

\* text.substring(0, n)
substring(text, n) == SubSeq(text, 1, Min(n, Len(text)))

\* the message of an error event whose content is not a string
ErrorDetected == <<"Error detected">>

\* the last block of analyzeTranscriptEntry: a tool_result whose is_error is
\* set, or whose content in lower case includes 'error', raises an error event
\* with the first 200 characters of the content.  A missing content counts as
\* ''.  A content that is not a string has no toLowerCase: with is_error not
\* set the test throws, the caller logs it and no event is raised.
errorEvents(s, entry) ==
  LET isError == entry.is_error
      content == IF entry.content.kind = "absent" THEN Text(<< >>) ELSE entry.content
      isString == content.kind = "string"
  IN IF isError \/ (isString /\ includes(toLowerCase(content.text),
                                          <<"e", "r", "r", "o", "r">>))
       THEN <<[sid |-> s, kind |-> "error", fileName |-> None,
               errorMessage |-> IF isString THEN substring(content.text, MaxErrorLen)
                                ELSE ErrorDetected]>>
       ELSE << >>

\* analyzeTranscriptEntry: the events one record raises (captureScreenshot
\* calls), in order
analyzeTranscriptEntry(s, entry) ==
  (IF entry.type = "tool_use" /\ entry.name \in {"Edit", "Write"}
     THEN <<[sid |-> s, kind |-> "file-modified",
             fileName |-> IF entry.file_path # << >>
                            THEN basename(entry.file_path) ELSE "unknown"]>>
     ELSE << >>)
  \o (IF entry.type = "tool_use" /\ entry.name = "ExitPlanMode"
        THEN <<[sid |-> s, kind |-> "plan-approved", fileName |-> None]>>
        ELSE << >>)
  \o (IF /\ entry.type = "tool_use" /\ entry.name = "Bash"
         /\ \E k \in testKeywords : includes(entry.command, k)
        THEN <<[sid |-> s, kind |-> "test-run", fileName |-> None]>>
        ELSE << >>)
  \o (IF entry.type = "tool_result" THEN errorEvents(s, entry) ELSE << >>)

\* the index (from 0) of the first line processTranscriptUpdate treats as new;
\* lastSize is 0 when no state is saved
startIndex_Unclamped(lastSize, nLines) == lastSize \div AvgLineBytes
startIndex(lastSize, nLines) ==
  Max(0, Min(lastSize \div AvgLineBytes, nLines - 1))

\* the for-loop if a line JSON.parse rejects ended the batch
segment_StopAtBadLine(content, todo) == IF todo = << >> THEN 0 ELSE 1
RECURSIVE segment(_, _)
\* how many lines at the head of todo the for-loop handles without giving up
\* control: lines JSON.parse rejects are logged and passed over, and the first
\* line it accepts is analyzed, which awaits
segment(content, todo) ==
  IF todo = << >> THEN 0
  ELSE IF content[Head(todo)].ok THEN 1
  ELSE 1 + segment(content, Tail(todo))

RECURSIVE eventsOf(_, _, _)
\* the events the lines content[todo[1]], .., content[todo[n]] raise
eventsOf(s, content, todo) ==
  IF todo = << >> THEN << >>
  ELSE (IF content[Head(todo)].ok
          THEN analyzeTranscriptEntry(s, content[Head(todo)].entry)
          ELSE << >>)
       \o eventsOf(s, content, Tail(todo))

\* the project paths startMonitoring is called with
Paths == {"p1", "p2"}

\* this._watchers.has(sessionId) in startMonitoring, if it were never true
alreadyMonitoring_Never(ws, s) == FALSE
alreadyMonitoring(ws, s) == s \in ws

\* the test of this._watchers.get(sessionId) in stopMonitoring, if it always
\* passed
hasWatcher_Always(ws, s) == TRUE
hasWatcher(ws, s) == s \in ws

\* SessionMonitor.startMonitoring(sessionId, projectPath): returns at once
\* when the session is watched
StartMonitoringAt(s, path) ==
  /\ IF alreadyMonitoring(watchers, s)
       THEN UNCHANGED <<watchers, installed>>
       ELSE /\ watchers' = watchers \cup {s}
            /\ installed' = [installed EXCEPT ![s] = Append(@, path)]
  /\ UNCHANGED <<nTruncs, file, lastProcessedState, runs, nRuns, classified, events,
                 disturbed>>
  /\ monFrame

\* startMonitoring of a session that is not watched
StartMonitoring(s) ==
  /\ s \notin watchers
  /\ StartMonitoringAt(s, "p1")

\* SessionMonitor.stopMonitoring(sessionId): disposes the watcher the map
\* holds, the one created last, and forgets the saved state; does nothing
\* when the map holds none
StopMonitoringCall(s) ==
  /\ IF hasWatcher(watchers, s)
       THEN /\ watchers' = watchers \ {s}
            /\ installed' = [installed EXCEPT ![s] = SubSeq(@, 1, Len(@) - 1)]
            /\ lastProcessedState' = MapDelete(lastProcessedState, s)
            /\ disturbed' = (disturbed \/ s \in DOMAIN lastProcessedState)
       ELSE UNCHANGED <<watchers, installed, lastProcessedState, disturbed>>
  /\ UNCHANGED <<nTruncs, file, runs, nRuns, classified, events>>
  /\ monFrame

\* stopMonitoring of a session that is watched
StopMonitoring(s) ==
  /\ s \in watchers
  /\ StopMonitoringCall(s)

\* the agent appends a record to the transcript
AppendLine(s, l) ==
  /\ Len(file[s]) < MaxLines
  /\ file' = [file EXCEPT ![s] = Append(@, l)]
  /\ UNCHANGED <<nTruncs, watchers, installed, lastProcessedState, runs, nRuns,
                 classified, events,
                 disturbed>>
  /\ monFrame

\* the transcript is truncated or rotated
TruncateFile(s) ==
  /\ file[s] # << >>
  /\ nTruncs < MaxTruncs
  /\ nTruncs' = nTruncs + 1
  /\ file' = [file EXCEPT ![s] = << >>]
  /\ disturbed' = TRUE
  /\ UNCHANGED <<watchers, installed, lastProcessedState, runs, nRuns, classified,
                 events>>
  /\ monFrame

\* the transcript is rewritten in place: its last record is replaced by
\* another of the same length
RewriteFile(s) ==
  /\ file[s] # << >>
  /\ Last(file[s]) = EditLine
  /\ nTruncs < MaxTruncs
  /\ nTruncs' = nTruncs + 1
  /\ file' = [file EXCEPT ![s][Len(file[s])] = EditOtherLine]
  /\ disturbed' = TRUE
  /\ UNCHANGED <<watchers, installed, lastProcessedState, runs, nRuns, classified,
                 events>>
  /\ monFrame

\* the watcher's onDidChange handler: processTranscriptUpdate starts and
\* issues readFile and stat; the file system delivers the change event while
\* fewer than maxInFlight earlier calls for the session are in progress
Notify(r, s, maxInFlight) ==
  /\ s \in watchers
  /\ Cardinality(inFlight(s)) < maxInFlight
  /\ r = nRuns + 1
  /\ r \in Runs
  /\ nRuns' = r
  /\ runs' = [runs EXCEPT ![r] = [IdleRun EXCEPT !.sid = s, !.pc = "reading"]]
  /\ disturbed' = (disturbed \/ inFlight(s) # {})
  /\ UNCHANGED <<nTruncs, file, watchers, installed, lastProcessedState, classified,
                 events>>
  /\ monFrame

\* fsPromises.readFile completes
ReadFile(r) ==
  /\ runs[r].pc = "reading"
  /\ ~runs[r].haveContent
  /\ runs' = [runs EXCEPT ![r].haveContent = TRUE, ![r].content = file[runs[r].sid]]
  /\ UNCHANGED <<nTruncs, file, watchers, installed, lastProcessedState, nRuns,
                 classified, events,
                 disturbed>>
  /\ monFrame

\* fsPromises.stat completes
Stat(r) ==
  /\ runs[r].pc = "reading"
  /\ ~runs[r].haveStats
  /\ runs' = [runs EXCEPT ![r].haveStats = TRUE,
                          ![r].size = byteSize(file[runs[r].sid])]
  /\ UNCHANGED <<nTruncs, file, watchers, installed, lastProcessedState, nRuns,
                 classified, events,
                 disturbed>>
  /\ monFrame

\* the for-loop of processTranscriptUpdate runs until its next await, or to
\* its end
advance(r, s, content, todo) ==
  LET n == segment(content, todo)
      now == SubSeq(todo, 1, n)
      rest == SubSeq(todo, n + 1, Len(todo))
  IN /\ classified' = [classified EXCEPT ![s] = @ \o now]
     /\ events' = events \o eventsOf(s, content, now)
     /\ runs' = [runs EXCEPT ![r] =
                   IF n > 0 /\ content[todo[n]].ok
                     THEN [@ EXCEPT !.pc = "analyzing", !.todo = rest,
                                    !.outcome = "processed"]
                     ELSE DoneRun(s, "processed")]

\* the saved states after a call for s has found the file shorter than saved:
\* this._lastProcessedState.delete(sessionId)
afterTruncation_Keep(states, s) == states
afterTruncation(states, s) == MapDelete(states, s)

\* processTranscriptUpdate after Promise.all: compare with the saved state,
\* save the new one and start on the new lines
Process(r) ==
  LET s == runs[r].sid
      content == runs[r].content
      hasLast == s \in DOMAIN lastProcessedState
      lastState == lastProcessedState[s]
      \* of: history, the content the hash was taken of
      currentState == [size |-> runs[r].size, hash |-> sha256(content),
                       of |-> content]
      nLines == Len(content)
      first == startIndex(IF hasLast THEN lastState.size ELSE 0, nLines)
  IN /\ runs[r].pc = "reading"
     /\ runs[r].haveContent /\ runs[r].haveStats
     /\ IF hasLast /\ currentState.size < lastState.size
          THEN /\ lastProcessedState' = afterTruncation(lastProcessedState, s)
               /\ runs' = [runs EXCEPT ![r] = DoneRun(s, "truncated")]
               /\ UNCHANGED <<classified, events>>
        ELSE IF hasLast /\ currentState.hash = lastState.hash
          THEN /\ runs' = [runs EXCEPT ![r] = DoneRun(s, "unchanged")]
               /\ UNCHANGED <<lastProcessedState, classified, events>>
        ELSE /\ lastProcessedState' = MapSet(lastProcessedState, s, currentState)
             /\ advance(r, s, content, [i \in 1..(nLines - first) |-> first + i])
     /\ UNCHANGED <<file, watchers, installed, nRuns, nTruncs, disturbed>>
     /\ monFrame

\* the saved states after the read of a call for s has thrown: the outer
\* catch only logs
afterReadFailure_Reset(states, s) == MapDelete(states, s)
afterReadFailure(states, s) == states

\* readFile or stat rejects: Promise.all rejects at once and the outer catch
\* ends the call
ReadFails(r) ==
  /\ runs[r].pc = "reading"
  /\ ~(runs[r].haveContent /\ runs[r].haveStats)
  /\ runs' = [runs EXCEPT ![r] = DoneRun(runs[r].sid, "failed")]
  /\ lastProcessedState' = afterReadFailure(lastProcessedState, runs[r].sid)
  /\ UNCHANGED <<nTruncs, file, watchers, installed, nRuns, classified, events,
                 disturbed>>
  /\ monFrame

\* the awaited analyzeTranscriptEntry returns and the for-loop goes on
Continue(r) ==
  /\ runs[r].pc = "analyzing"
  /\ advance(r, runs[r].sid, runs[r].content, runs[r].todo)
  /\ UNCHANGED <<nTruncs, file, watchers, installed, lastProcessedState, nRuns,
                 disturbed>>
  /\ monFrame

\* analyzeTranscriptEntry applied to one record
Classify(s, entry) ==
  /\ Len(events) < MaxClassify
  /\ analyzed' = entry
  /\ events' = events \o analyzeTranscriptEntry(s, entry)
  /\ UNCHANGED <<file, watchers, lastProcessedState, installed, runs, nRuns, nTruncs,
                 classified, disturbed>>
  /\ UNCHANGED <<ptyVars, termVars>>

\* SessionMonitor.manualCapture
ManualCapture(s) ==
  /\ Len(events) < MaxClassify
  /\ events' = Append(events, [sid |-> s, kind |-> "manual", fileName |-> None])
  /\ UNCHANGED <<file, watchers, lastProcessedState, installed, runs, nRuns, nTruncs,
                 classified, disturbed>>
  /\ monFrame

MonSteps(sids, lines, maxInFlight) ==
  \/ \E s \in sids : StartMonitoring(s)
  \/ \E s \in sids : StopMonitoring(s)
  \/ \E s \in sids, l \in lines : AppendLine(s, l)
  \/ \E r \in Runs, s \in sids : Notify(r, s, maxInFlight)
  \/ \E r \in Runs : ReadFile(r)
  \/ \E r \in Runs : Stat(r)
  \/ \E r \in Runs : Process(r)
  \/ \E r \in Runs : Continue(r)

(***************************************************************************)
(* Specifications.                                                         *)
(***************************************************************************)
vars == <<ptyVars, termVars, monVars>>
Init == InitPty /\ InitTerm /\ InitMon

\* Lifecycle: several processes, also under one session id, with little output.
\* The arguments a process is started with play no part in its life cycle:
\* sessions are started by newSession here, and by resumeSession too in the
\* specifications below.
NextPty ==
  \/ \E id \in SessionIds : NewSession(id, Procs, FALSE)
  \/ \E p \in Procs : OnData(p, MAX_LINE_LENGTH + 1, MaxLifeChunks)
  \/ \E p \in Procs : OnExit(p)
  \/ \E t \in timers : TimerFire(t)
  \/ \E id \in SessionIds : Dispose(id)
  \/ DisposeAll
  \/ \E id \in SessionIds : Kill(id)
  \/ \E id \in SessionIds : AddListener(id, "l1", FALSE)
  \/ \E id \in SessionIds : RemoveListener(id, "l1")
SpecPty == Init /\ [][NextPty]_vars

\* Output: the whole life of the first process with its output stream.
NextPtyOut == PtyNext({1}, MaxChunks, ChunkLens, Listeners, FALSE)
SpecPtyOut == Init /\ [][NextPtyOut]_vars

\* Calls that fail: clients start, use and dispose sessions (their processes
\* stay silent and do not exit); the error of each call is kept.
NextPtyCalls ==
  \/ \E id \in CallIds : NewSession(id, Procs, TRUE)
  \/ \E id \in CallIds : AddListener(id, "l1", TRUE)
  \/ \E id \in CallIds : Dispose(id)
  \/ PtyIo(TRUE)
SpecPtyCalls == Init /\ [][NextPtyCalls]_vars

\* Snapshots: a client reads the buffer of the first process while it emits.
NextPtySnap ==
  \/ PtyNext({1}, MaxChunks, {MAX_LINE_LENGTH}, {"l1"}, FALSE)
  \/ \E id \in SessionIds : GetOutputBuffer(id)
  \/ MutateSnapshot
SpecPtySnap == Init /\ [][NextPtySnap]_vars

\* Terminal routing.
NextTerm == TermNext
SpecTerm == Init /\ [][NextTerm]_vars

\* the terminal tracking alone: every way a binding is registered (the resume
\* command, the plan service, the name match and the active-terminal
\* fallback of a send) against terminals that open, get the focus and close
NextTrack ==
  \/ \E i \in Sends, s \in Targets : StartSend(i, s, <<"esc">>)
  \/ \E i \in Sends : SendWrite(i)
  \/ \E name \in UserTermNames : OpenTerminal(name)
  \/ \E id \in SessionIds : ResumeSessionCommand(id)
  \/ \E t \in Terms : FocusTerminal(t)
  \/ \E t \in Terms : CloseTerminal(t)
  \/ \E s \in Targets : TryAutoRegisterTerminal(s)
SpecTrack == Init /\ [][NextTrack]_vars

\* the transcript monitor watching one session whose transcript only grows and
\* whose change notifications arrive one after the other
NextMon == MonSteps({SessA}, Lines, 1)
SpecMon == Init /\ [][NextMon]_vars

\* the same when change notifications arrive in bursts
NextMonBurst == MonSteps({SessA}, {EditLine}, MaxRuns)
SpecMonBurst == Init /\ [][NextMonBurst]_vars

\* the same when the transcript may also be truncated
NextMonTrunc ==
  \/ MonSteps({SessA}, {EditLine}, 1)
  \/ TruncateFile(SessA)
SpecMonTrunc == Init /\ [][NextMonTrunc]_vars

\* a watched transcript that is appended to, rewritten in place and truncated
NextMonRewrite ==
  \/ StartMonitoring(SessA)
  \/ AppendLine(SessA, EditLine)
  \/ RewriteFile(SessA)
  \/ TruncateFile(SessA)
  \/ \E r \in Runs : Notify(r, SessA, 1)
  \/ \E r \in Runs : ReadFile(r)
  \/ \E r \in Runs : Stat(r)
  \/ \E r \in Runs : Process(r)
  \/ \E r \in Runs : Continue(r)
SpecMonRewrite == Init /\ [][NextMonRewrite]_vars

\* a growing transcript whose reads may fail
NextMonFail ==
  \/ MonSteps({SessA}, {EditLine}, 1)
  \/ \E r \in Runs : ReadFails(r)
SpecMonFail == Init /\ [][NextMonFail]_vars

\* two sessions whose monitoring is started and stopped at any time, also
\* when it is already started or already stopped; the transcript of the first
\* grows
NextMonWatch ==
  \/ \E s \in Targets, path \in Paths : StartMonitoringAt(s, path)
  \/ \E s \in Targets : StopMonitoringCall(s)
  \/ AppendLine(SessA, EditLine)
  \/ \E r \in Runs : Notify(r, SessA, 1)
  \/ \E r \in Runs : ReadFile(r)
  \/ \E r \in Runs : Stat(r)
  \/ \E r \in Runs : Process(r)
  \/ \E r \in Runs : Continue(r)
SpecMonWatch == Init /\ [][NextMonWatch]_vars

\* the classification of single records, and captures asked for by hand
NextClassify ==
  \/ \E e \in Entries : Classify(SessA, e)
  \/ ManualCapture(SessA)
SpecClassify == Init /\ [][NextClassify]_vars

\* two services that send at the same time, each to a session that the resume
\* command has bound to a terminal of its own beforehand; nobody else moves
\* the focus
NextSends ==
  \/ \E id \in SessionIds : nSends = 0 /\ ResumeSessionCommand(id)
  \/ \E i \in Calls, s \in Targets : StartSend(i, s, <<"text", "cr">>)
  \/ \E i \in Calls, s \in Targets : StartSend(i, s, <<"esc">>)
  \/ \E i \in Calls : SendNext(i)
  \/ \E i \in Calls : SendWrite(i)
SpecSends == Init /\ [][NextSends]_vars

\* a session watched without a break whose transcript only grows and whose
\* change notifications overlap
NextMonOverlap ==
  \/ StartMonitoring(SessA)
  \/ AppendLine(SessA, EditLine)
  \/ \E r \in Runs : Notify(r, SessA, MaxRuns)
  \/ \E r \in Runs : ReadFile(r)
  \/ \E r \in Runs : Stat(r)
  \/ \E r \in Runs : Process(r)
  \/ \E r \in Runs : Continue(r)
SpecMonOverlap == Init /\ [][NextMonOverlap]_vars

\* one session resumed again and again, each time in a new terminal, while
\* terminals close and a service sends to the session
NextRebind ==
  \/ \E id \in SessionIds : ResumeSessionCommandUpTo(id, MaxTerms + 1)
  \/ \E t \in 1..(MaxTerms + 1) : CloseTerminal(t)
  \/ \E i \in Sends : StartSend(i, SessA, <<"esc">>)
  \/ \E i \in Sends : SendWrite(i)
SpecRebind == Init /\ [][NextRebind]_vars

\* spawn with its failures: of the validation, of the duplicate check, of
\* pty.spawn and of the write of the initial command
NextSpawnFail ==
  \/ \E id \in SessionIds : NewSession(id, Procs, TRUE)
  \/ \E id \in SessionIds : ResumeSession(id, Procs, TRUE)
  \/ \E id \in SessionIds : SpawnProcessFails(id)
  \/ \E id \in SessionIds : SpawnWriteFails(id, <<"--resume", id>>, Procs)
  \/ \E q \in Procs : OnData(q, MAX_LINE_LENGTH + 1, MaxLifeChunks)
  \/ \E q \in Procs : OnExit(q)
  \/ \E t \in timers : TimerFire(t)
  \/ \E id \in SessionIds : Dispose(id)
SpecSpawnFail == Init /\ [][NextSpawnFail]_vars

\* two sessions side by side: their processes emit, exit and are written to,
\* subscribed to and disposed; and, in other runs, their transcripts are
\* watched, one of them growing while the notifications of both are handled.
\* The manager and the monitor share no state, so a run exercises one of them.
\* as many processes, and as many chunks of output, as there are sessions to
\* tell apart
IsolationProcs == 1..Cardinality(Targets)
IsolationChunks == Cardinality(Targets)
NextIsolation ==
  \/ /\ InitMon
     /\ \/ \E id \in SessionIds : NewSession(id, IsolationProcs, FALSE)
        \/ \E q \in Procs : OnData(q, MAX_LINE_LENGTH + 1, IsolationChunks)
        \/ \E q \in Procs : OnExit(q)
        \/ \E t \in timers : TimerFire(t)
        \/ \E id \in Targets : Dispose(id)
        \/ \E id \in Targets : AddListener(id, "l1", FALSE)
        \/ \E id \in Targets : Write(id, "y", FALSE)
  \/ /\ InitPty
     /\ \/ \E s \in Targets : StartMonitoring(s)
        \/ AppendLine(SessA, EditLine)
        \/ nRuns = 0 /\ AppendLine(SessB, EditLine)
        \/ \E r \in Runs, s \in Targets : Notify(r, s, 1)
        \/ \E r \in Runs : ReadFile(r)
        \/ \E r \in Runs : Stat(r)
        \/ \E r \in Runs : Process(r)
        \/ \E r \in Runs : Continue(r)
SpecIsolation == Init /\ [][NextIsolation]_vars

(***************************************************************************)
(* Properties of the PTY manager.                                          *)
(***************************************************************************)
AllEntries == UNION {Range(outputBuffer[p]) : p \in Procs}
AllDelivered == UNION {Range(lastDelivered[l]) : l \in Listeners}

\* the last n elements of s
LastN(s, n) == SubSeq(s, Len(s) - n + 1, Len(s))

\* C1: for a valid session id, dispose leaves no registry entry for it:
\* getSession finds nothing and the checks of a new spawn with that id pass.
C1_DisposeLeavesNoEntry ==
  [][\A id \in SessionIds :
       (isValidSessionId(id) /\ Dispose(id)) =>
         /\ id \notin DOMAIN sessions'
         /\ (getSession(id))' = 0
         /\ (spawnAccepted(id))']_vars

\* a session was spawned under a valid id and then disposed by a dispose call
C1_Witness ==
  \E p \in Procs :
    /\ disposedBy[p].how = "explicit"
    /\ isValidSessionId(procSid[p])
    /\ procSid[p] \notin DOMAIN sessions

\* C2: after an explicit dispose of a session, the grace timer of that
\* session's process never removes a session from the registry.
C2_DisposeCancelsTimer ==
  \A q \in Procs :
    disposedBy[q].how = "timer" =>
      disposedBy[q].by = q \/ disposedBy[disposedBy[q].by].how # "explicit"

\* C7: no output buffer ever holds more than MAX_BUFFER_SIZE entries.
C7_BufferBounded ==
  \A p \in Procs : Len(outputBuffer[p]) <= MAX_BUFFER_SIZE

\* a process has emitted more chunks than the buffer holds
C7_Witness ==
  \E p \in Procs :
    /\ Len(emitted[p]) > MAX_BUFFER_SIZE
    /\ Len(outputBuffer[p]) = MAX_BUFFER_SIZE

\* C8: after n chunks the buffer is the last min(n, MAX_BUFFER_SIZE) processed
\* chunks in emission order.
C8_BufferIsRecentSuffix ==
  \A p \in Procs :
    outputBuffer[p] = LastN(emitted[p], Min(Len(emitted[p]), MAX_BUFFER_SIZE))

\* a process has emitted two chunks more than the buffer holds
C8_Witness ==
  \E p \in Procs :
    /\ Len(emitted[p]) >= MAX_BUFFER_SIZE + 2
    /\ Len(outputBuffer[p]) = MAX_BUFFER_SIZE

\* what C9 expects to be stored and forwarded for the raw chunk r
ExpectedFor(r) ==
  IF r.keep > MAX_LINE_LENGTH
    THEN [id |-> r.id, keep |-> MAX_LINE_LENGTH, marker |-> TRUE]
    ELSE r

\* C9: a chunk longer than MAX_LINE_LENGTH is stored and forwarded as its
\* first MAX_LINE_LENGTH characters plus the marker, a chunk of at most that
\* length unchanged; the buffers and the listeners see nothing else.
C9_TruncatedOrUnchanged ==
  \A c \in AllEntries \cup AllDelivered : c = ExpectedFor(emittedRaw[c.id])

\* a buffer holds a truncated chunk and an unchanged chunk of exactly the
\* maximal length, and a listener was called with a truncated chunk
C9_Witness ==
  /\ \E c \in AllEntries : c.marker /\ emittedRaw[c.id].keep > MAX_LINE_LENGTH
  /\ \E c \in AllEntries : ~c.marker /\ c.keep = MAX_LINE_LENGTH
  /\ \E c \in AllDelivered : c.marker

\* C10, as stated: every buffer entry is at most MAX_LINE_LENGTH characters long.
C10_EntryAtMostMaxLine ==
  \A c \in AllEntries : length(c) <= MAX_LINE_LENGTH

\* C10, amended: every buffer entry holds at most MAX_LINE_LENGTH characters of
\* the chunk, and is at most MAX_LINE_LENGTH plus the marker's length long.
C10_EntryAtMostMaxLinePlusMarker ==
  \A c \in AllEntries :
    /\ c.keep <= MAX_LINE_LENGTH
    /\ length(c) <= MAX_LINE_LENGTH + MarkerLen

\* a buffer holds a truncated entry of the maximal length
C10_Witness ==
  \E c \in AllEntries : c.marker /\ length(c) = MAX_LINE_LENGTH + MarkerLen

\* the last element of a non-empty sequence

\* C11: when a process emits a chunk, every listener subscribed to its session
\* at that moment is called with it, once, as the processed text that was just
\* stored in the buffer, and later than every chunk it was called with before;
\* no other listener is called, and no listener is called at any other time.
C11_DeliveredOnceToSubscribers ==
  [][/\ \A p \in Procs :
          emitted'[p] # emitted[p] =>
            /\ Last(emitted'[p]) = Last(outputBuffer'[p])
            /\ \A l \in Listeners :
                 IF l \in listeners[p]
                   THEN /\ lastDelivered'[l] = <<Last(emitted'[p])>>
                        /\ lastDelivered[l] # << >> =>
                             lastDelivered[l][1].id < Last(emitted'[p]).id
                   ELSE lastDelivered'[l] = lastDelivered[l]
     /\ emitted' = emitted => lastDelivered' = lastDelivered]_vars

\* two listeners of one session were both called with its latest chunk, a
\* truncated one, after earlier chunks
C11_Witness ==
  \E p \in Procs :
    /\ Len(emitted[p]) >= 2
    /\ Last(emitted[p]).marker
    /\ \A l \in Listeners : lastDelivered[l] = <<Last(emitted[p])>>

\* an identifier that is empty, longer than 128 characters, or holds a
\* character other than a letter, a digit, an underscore or a hyphen
Malformed(id) ==
  \/ Len(id) = 0
  \/ Len(id) > MaxIdLen
  \/ \E i \in 1..Len(id) : id[i] \notin IdChars

\* C12: a spawn with a malformed session identifier fails with the invalid-id
\* error and changes nothing: no process is created, and the registry and
\* every existing session stay as they were; so no process ever runs under a
\* malformed identifier.
C12_MalformedIdRejected ==
  [][/\ \A id \in CallIds :
          (Malformed(id) /\ NewSession(id, Procs, TRUE)) =>
            (threw' = InvalidId /\ UNCHANGED ptyProgVars)
     /\ \A p \in Procs : procState'[p] # "none" => ~Malformed(procSid'[p])]_vars

\* a malformed spawn has just been rejected while a session is registered
C12_Witness ==
  /\ threw = InvalidId
  /\ sessions # EmptyMap
  /\ spawned < MaxProcs

\* the processes spawned under id that have not exited
LiveProcs(id) ==
  {p \in Procs : procSid[p] = id /\ procState[p] \in {"running", "killed"}}

\* C13: a spawn for an identifier that has a registry entry fails and leaves
\* the existing session as it was, so that at no time two processes that
\* have not exited were spawned under the same session identifier.
C13_OneLiveProcessPerId ==
  \A id \in SessionIds : Cardinality(LiveProcs(id)) <= 1

\* C14: write, resize and addListener for an identifier without a registry
\* entry each throw the not-found error and change nothing: no process gets
\* input or a new size, and the registry and every session's buffer and
\* listeners stay as they were.
C14_UnknownIdRejected ==
  [][\A id \in CallIds :
       (/\ id \notin DOMAIN sessions
        /\ \/ Write(id, "y", TRUE)
           \/ Resize(id, OtherSize, TRUE)
           \/ AddListener(id, "l1", TRUE)) =>
         (threw' = NotFound /\ UNCHANGED ptyProgVars)]_vars

\* a call for an unknown identifier has just been rejected while another
\* session has a listener and unread input
C14_Witness ==
  /\ threw = NotFound
  /\ \E p \in Procs :
       /\ procSid[p] \in DOMAIN sessions
       /\ sessions[procSid[p]] = p
       /\ listeners[p] # {}
       /\ ptyInput[p] # << >>

\* process p is the session registered under its identifier
Registered(p) == procSid[p] \in DOMAIN sessions /\ sessions[procSid[p]] = p

\* C15: the exit of a session's process removes nothing: the session stays
\* registered with its buffer, and while no caller disposes it, it leaves the
\* registry only when the grace timer of its own exit fires.
C15_ExitedSessionKeptForGracePeriod ==
  [][\A p \in Procs :
       /\ OnExit(p) => (sessions' = sessions /\ outputBuffer' = outputBuffer)
       /\ (Registered(p) /\ procState[p] = "exited" /\ ~Registered(p)') =>
            \/ disposedBy'[p].how = "explicit"
            \/ (disposedBy'[p].how = "timer" /\ disposedBy'[p].by = p)]_vars

\* C16: a disposed session is never registered again; output its process
\* emits after the disposal reaches no listener and no other session's
\* buffer, and its exit calls no listener; a spawn that succeeds registers a
\* new process with an empty buffer and no listeners, also under the
\* identifier of a disposed session.
C16_DisposedStaysDisposed ==
  [][/\ \A p \in Procs :
          disposedBy[p].how # None =>
            /\ ~Registered(p)'
            /\ disposedBy'[p] = disposedBy[p]
            /\ (emitted'[p] # emitted[p] \/ OnExit(p)) =>
                 /\ lastDelivered' = lastDelivered
                 /\ \A q \in Procs \ {p} : outputBuffer'[q] = outputBuffer[q]
     /\ spawned' # spawned =>
          /\ procSid'[spawned'] \in DOMAIN sessions'
          /\ sessions'[procSid'[spawned']] = spawned'
          /\ outputBuffer'[spawned'] = << >>
          /\ listeners'[spawned'] = {}
          /\ disposedBy'[spawned'].how = None]_vars

\* a disposed session's process has emitted output after the disposal and
\* has exited, and its identifier is registered to a later process that has
\* a listener, an empty buffer and no delivery
C16_Witness ==
  \E p, q \in Procs :
    /\ disposedBy[p].how # None
    /\ Len(emitted[p]) > disposedBy[p].at
    /\ procState[p] = "exited"
    /\ q > p
    /\ procSid[q] = procSid[p]
    /\ Registered(q)
    /\ listeners[q] # {}
    /\ outputBuffer[q] = << >>
    /\ \A l \in Listeners : lastDelivered[l] = << >>

\* what the claim says of dispose(id) in the current state: once is the
\* registry after it
DisposeEffect(id, once) ==
  IF id \in DOMAIN sessions
    THEN LET p == sessions[id]
         IN /\ once.sessions = MapDelete(sessions, id)
            /\ once.listeners[p] = {}
            /\ once.procState[p] =
                 IF procState[p] = "running" THEN "killed" ELSE procState[p]
            /\ \A q \in Procs \ {p} :
                 /\ once.listeners[q] = listeners[q]
                 /\ once.procState[q] = procState[q]
    ELSE once = registry

\* C17: dispose(id) signals the session's process if it runs (a process that
\* has exited stays as it is), clears its listeners and removes its entry;
\* for an identifier without entry it changes nothing, so disposing twice
\* is the same as disposing once; and the call always returns.
C17_DisposeIdempotent ==
  \A id \in SessionIds :
    /\ DisposeEffect(id, dispose(registry, id))
    /\ dispose(dispose(registry, id), id) = dispose(registry, id)

\* a session was disposed by a call and its identifier has no entry, so a
\* further dispose of it is a second one, while another session is
\* registered with a listener
C17_Witness ==
  \E p, q \in Procs :
    /\ disposedBy[p].how = "explicit"
    /\ procSid[p] \notin DOMAIN sessions
    /\ Registered(q)
    /\ listeners[q] # {}

\* C18: getOutputBuffer returns the session's buffer as it is at the call,
\* empty for an unknown identifier; chunks emitted later do not change the
\* array returned, and a change the client makes to that array does not
\* change any session's buffer.
C18_BufferSnapshot ==
  [][/\ \A id \in SessionIds :
          GetOutputBuffer(id) =>
            snapshotValue' = IF id \in DOMAIN sessions
                               THEN outputBuffer[sessions[id]] ELSE << >>
     /\ emittedRaw' # emittedRaw => snapshotValue' = snapshotValue
     /\ MutateSnapshot =>
          /\ outputBuffer' = outputBuffer
          /\ snapshotValue' = Append(snapshotValue, ClientChunk)]_vars

\* the client holds an array with a chunk of the session and its own
\* addition, while a session's buffer holds a later chunk and not the
\* client's addition
C18_Witness ==
  /\ ClientChunk \in Range(snapshotValue)
  /\ \E i \in DOMAIN snapshotValue : snapshotValue[i].id # 0
  /\ \E p \in Procs : \E c \in Range(outputBuffer[p]) :
       \A i \in DOMAIN snapshotValue : c.id > snapshotValue[i].id
  /\ \A p \in Procs : ClientChunk \notin Range(outputBuffer[p])

(***************************************************************************)
(* Properties of the terminal tracking                                     *)
(***************************************************************************)
\* terminal t was created and has closed
IsClosed(t) == t \in 1..Len(termName) /\ ~isOpen(t)

\* C19: the map binds sessions to open terminals only, and neither the
\* lookup of a binding nor the search for a session's terminal gives a
\* terminal that has closed, however the binding was registered.
C19_NoBindingToClosedTerminal ==
  /\ \A s \in DOMAIN sessionTerminalMap : isOpen(sessionTerminalMap[s])
  /\ \A s \in Targets :
       /\ ~IsClosed(getSessionTerminal(tracking, s).terminal)
       /\ ~IsClosed(findClaudeTerminal(s).terminal)
       /\ \A s2 \in DOMAIN findClaudeTerminal(s).tr.map :
            isOpen(findClaudeTerminal(s).tr.map[s2])

\* a terminal has closed while a session was bound to it; another terminal
\* is open and a session is bound to it
C19_Witness ==
  /\ closedBound
  /\ \E t \in Terms : IsClosed(t)
  /\ \E s \in DOMAIN sessionTerminalMap : isOpen(sessionTerminalMap[s])

(***************************************************************************)
(* Properties of the terminal routing.                                     *)
(***************************************************************************)
BoundTo(s, t) == s \in DOMAIN sessionTerminalMap /\ sessionTerminalMap[s] = t
LabelContains(t, s) == includes(toLowerCase(termName[t]), toLowerCase(s))
\* the label matches an expected-program name: 'claude' or 'node'
LabelAllowed(t) ==
  \/ includes(toLowerCase(termName[t]), NameClaude)
  \/ toLowerCase(termName[t]) = NameNode
Qualifies(s, t) == BoundTo(s, t) \/ LabelContains(t, s) \/ LabelAllowed(t)

\* call i chooses its terminal in this step
Chooses(i) == sendState[i].pc # "write" /\ sendState'[i].pc = "write"

\* C3: a send for session s never goes to a terminal that is not bound to s,
\* whose label does not contain s and whose label is not on the allow-list:
\* such a terminal is never chosen, and no write reaches one.
C3_NeverAGenericShell ==
  [][\A i \in Sends :
       /\ Chooses(i) =>
            Qualifies(sendState'[i].target, sendState'[i].terminal)
       /\ (SendWrite(i) /\ writeDest(i) # 0) =>
            Qualifies(sendState[i].target, writeDest(i))]_vars

\* C4: a send targeted at session A is never written to a terminal bound to
\* another session B, unless the terminal is also bound to A or its label
\* contains A.
C4_NeverAnotherSessionsTerminal ==
  [][\A i \in Sends :
       (SendWrite(i) /\ writeDest(i) # 0) =>
         \A b \in Targets \ {sendState[i].target} :
           BoundTo(b, writeDest(i)) =>
             \/ BoundTo(sendState[i].target, writeDest(i))
             \/ LabelContains(writeDest(i), sendState[i].target)]_vars
\* no open terminal is bound to s, has a label containing s or has a label
\* on the allow-list
NoCandidate(s) == \A t \in Terms : isOpen(t) => ~Qualifies(s, t)

\* C21: a send for a session for which no open terminal qualifies fails:
\* it chooses no terminal, so nothing is written for it, the focus stays
\* where it is and the map of bindings is unchanged.
C21_NoCandidateSendFails ==
  [][\A i \in Sends : \A s \in Targets :
       (/\ NoCandidate(s)
        /\ \/ StartSend(i, s, <<"esc">>)
           \/ StartSend(i, s, <<"text", "cr">>)
           \/ (SendNext(i) /\ sendState[i].target = s)) =>
         /\ sendState'[i].pc = "failed"
         /\ UNCHANGED <<sessionTerminalMap, activeTerminal, lastWrite>>]_vars

\* C20: for a session bound to a terminal that is open, _findClaudeTerminal
\* gives that terminal and leaves the map and its close listeners as they
\* are, whatever the names of the other open terminals are and whichever
\* terminal has the focus.
C20_BoundTerminalFound ==
  \A s \in Targets : \A t \in Terms :
    (BoundTo(s, t) /\ isOpen(t)) =>
      findClaudeTerminal(s) = [terminal |-> t, tr |-> tracking]

\* a session is bound to an open terminal while another open terminal, whose
\* name contains the session's identifier, comes first and has the focus
C20_Witness ==
  \E s \in Targets : \E t \in Terms :
    /\ BoundTo(s, t)
    /\ isOpen(t)
    /\ firstNamed(toLowerCase(s)) \notin {0, t}
    /\ activeTerminal = firstNamed(toLowerCase(s))

(***************************************************************************)
(* Properties of the transcript monitor.                                   *)
(***************************************************************************)
\* the session's transcript only grew, it was watched without a break, and no
\* notification arrived while an earlier one was being processed
Undisturbed == ~disturbed

\* no call for s is in flight and the last one saw the file as it is now
CaughtUp(s) ==
  /\ inFlight(s) = {}
  /\ s \in DOMAIN lastProcessedState
  /\ lastProcessedState[s].hash = sha256(file[s])

\* C5: for an append-only transcript seen through non-overlapping change
\* notifications, the records are classified once each, in file order (the
\* k-th record classified is the k-th line of the file), and once a
\* notification that saw the whole file is processed none is left out; an
\* Edit record followed by a Bash "npm test" record gives exactly
\* file-modified(b.ts), test-run.
C5_EveryRecordClassifiedOnce ==
  Undisturbed =>
    \A s \in Targets :
      /\ Len(classified[s]) <= Len(file[s])
      /\ \A k \in 1..Len(classified[s]) : classified[s][k] = k
      /\ CaughtUp(s) => Len(classified[s]) = Len(file[s])
      /\ (CaughtUp(s) /\ file[s] = <<EditLine, BashLine>>) =>
            events = <<[sid |-> s, kind |-> "file-modified", fileName |-> "b.ts"],
                       [sid |-> s, kind |-> "test-run", fileName |-> None]>>

\* C6: the notifications of one session are processed one at a time: at most
\* one processTranscriptUpdate call per session is between its start and its
\* return.
C6_NotificationsSerialized ==
  \A s \in Targets : Cardinality(inFlight(s)) <= 1

\* the saved state of s, and whether there is one
HasState(s) == s \in DOMAIN lastProcessedState

\* C22: a notification that finds the file smaller than the saved size
\* discards the saved state, classifies no line and raises no event; and a
\* notification that finds no saved state, as the next one does, handles the
\* file from its first line.
C22_TruncationResets ==
  [][\A r \in Runs :
       LET s == runs[r].sid
       IN Process(r) =>
            /\ (HasState(s) /\ runs[r].size < lastProcessedState[s].size) =>
                 /\ ~HasState(s)'
                 /\ classified' = classified
                 /\ events' = events
                 /\ runs'[r].pc = "done"
            /\ (~HasState(s) /\ runs[r].content # << >>) =>
                 /\ Len(classified'[s]) > Len(classified[s])
                 /\ classified'[s][Len(classified[s]) + 1] = 1]_vars

\* a notification has discarded the saved state of a truncated transcript,
\* and the next one has handled the lines written since, from the first
C22_Witness ==
  \E r \in Runs \ {MaxRuns} : \E s \in Targets :
    /\ runs[r] = DoneRun(s, "truncated")
    /\ runs[r + 1] = DoneRun(s, "processed")
    /\ file[s] # << >>
    /\ Len(classified[s]) > Len(file[s])
    /\ LastN(classified[s], Len(file[s])) = [i \in 1..Len(file[s]) |-> i]

\* the call r ends in this step without having changed anything
Skipped(r) == Process(r) /\ UNCHANGED <<lastProcessedState, classified, events>>

\* the content call r has read is the content the saved state was taken of
SameContent(r) ==
  /\ HasState(runs[r].sid)
  /\ runs[r].content = lastProcessedState[runs[r].sid].of

\* C23 as stated: a notification is skipped exactly when a state is saved and
\* the content read is the content it was taken of; then nothing is
\* classified; and a content of the saved size that differs is not skipped
\* and becomes the saved one.
C23_SkippedIffSameContent ==
  [][\A r \in Runs :
       Process(r) =>
         /\ Skipped(r) <=> SameContent(r)
         /\ SameContent(r) => (classified' = classified /\ events' = events)
         /\ (/\ HasState(runs[r].sid)
             /\ runs[r].size = lastProcessedState[runs[r].sid].size
             /\ ~SameContent(r)) =>
              /\ ~Skipped(r)
              /\ lastProcessedState'[runs[r].sid].of = runs[r].content]_vars

\* C23 amended: the same, where a notification is skipped exactly when a
\* state is saved, the size observed is not below the saved size and the
\* content read is the content the saved state was taken of.
C23_SkippedIffSameContentNotSmaller ==
  [][\A r \in Runs :
       Process(r) =>
         /\ Skipped(r) <=>
              (/\ SameContent(r)
               /\ runs[r].size >= lastProcessedState[runs[r].sid].size)
         /\ SameContent(r) => (classified' = classified /\ events' = events)
         /\ (/\ HasState(runs[r].sid)
             /\ runs[r].size = lastProcessedState[runs[r].sid].size
             /\ ~SameContent(r)) =>
              /\ ~Skipped(r)
              /\ lastProcessedState'[runs[r].sid].of = runs[r].content]_vars

\* a notification with the content of the one before has been skipped, and
\* the next, after a rewrite of the same length, has been handled and has
\* saved the rewritten content
C23_Witness ==
  \E r \in Runs \ {MaxRuns} : \E s \in Targets :
    /\ runs[r] = DoneRun(s, "unchanged")
    /\ runs[r + 1] = DoneRun(s, "processed")
    /\ EditOtherLine \in Range(file[s])
    /\ HasState(s)
    /\ lastProcessedState[s].of = file[s]

\* the first notification of s has been handled to its end, and every later
\* one was skipped as unchanged
HandledOnce(s) ==
  /\ runs[1] = DoneRun(s, "processed")
  /\ \A r \in 2..nRuns : runs[r] = DoneRun(s, "unchanged")

\* C24: a line that does not parse ends neither the batch nor the saving of
\* the state: after the first notification is handled the size and hash of
\* the content it read are saved, every line of that content was handed to
\* the parser once, in order, and the events are those of the lines that
\* parse, in order; notifications with the same content add nothing.
C24_BadLineSkippedStateSaved ==
  \A s \in Targets :
    (Undisturbed /\ HandledOnce(s)) =>
      /\ HasState(s)
      /\ LET content == lastProcessedState[s].of
             all == [i \in 1..Len(content) |-> i]
         IN /\ lastProcessedState[s].hash = sha256(content)
            /\ classified[s] = all
            /\ events = eventsOf(s, content, all)

\* a transcript whose first line does not parse was handled, its Edit record
\* raised its event, and a second notification with the same content was
\* skipped
C24_Witness ==
  /\ Undisturbed
  /\ HandledOnce(SessA)
  /\ nRuns >= 2
  /\ file[SessA] = <<BadLine, EditLine>>
  /\ lastProcessedState[SessA].of = file[SessA]
  /\ events = <<[sid |-> SessA, kind |-> "file-modified", fileName |-> "b.ts"]>>

\* the notifications of s so far: reads that failed, then one handled to its
\* end, then only failed reads and skips of unchanged content
HandledOnceAmongFailures(s) ==
  \E k \in 1..nRuns :
    /\ runs[k] = DoneRun(s, "processed")
    /\ \A r \in 1..(k - 1) : runs[r] = DoneRun(s, "failed")
    /\ \A r \in (k + 1)..nRuns :
         runs[r] \in {DoneRun(s, "failed"), DoneRun(s, "unchanged")}

\* what C24 states of a transcript handled once, whatever reads failed
AsIfNoFailure(s) ==
  (Undisturbed /\ HandledOnceAmongFailures(s)) =>
    /\ HasState(s)
    /\ LET content == lastProcessedState[s].of
           all == [i \in 1..Len(content) |-> i]
       IN /\ classified[s] = all
          /\ events = eventsOf(s, content, all)

\* C25: a read that fails raises no event and leaves the saved states and the
\* watches as they are, and the calls before and after it give what they give
\* without it: a transcript handled once between failed reads has its state
\* saved and each of its lines classified once.
C25_ReadFailureLeavesNoTrace ==
  [][/\ \A r \in Runs :
          ReadFails(r) =>
            /\ UNCHANGED <<events, classified, lastProcessedState, watchers>>
            /\ runs'[r].pc = "done"
     /\ \A s \in Targets : AsIfNoFailure(s)']_vars

\* the first read failed, and the next notification was handled and raised
\* the event of the one record
C25_Witness ==
  /\ runs[1] = DoneRun(SessA, "failed")
  /\ runs[2] = DoneRun(SessA, "processed")
  /\ SessA \in watchers
  /\ HasState(SessA)
  /\ lastProcessedState[SessA].of = <<EditLine>>
  /\ events = <<[sid |-> SessA, kind |-> "file-modified", fileName |-> "b.ts"]>>

\* C26: while s is not watched (after stopMonitoring and before the next
\* startMonitoring) no state is saved for s and no event is raised for s.
C26_NothingAfterStop ==
  [][\A s \in Targets :
       s \notin watchers' =>
         /\ ~HasState(s)'
         /\ s \notin watchers =>
              \A i \in (Len(events) + 1)..Len(events') : events'[i].sid # s]_vars

\* C27: startMonitoring of a session that is watched, with whatever path,
\* changes nothing; so a session has at most one watcher object installed,
\* exactly when it is watched, and a change of its file is delivered to one
\* handler only.
C27_StartMonitoringIdempotent ==
  [][\A s \in Targets :
       /\ \A path \in Paths :
            (s \in watchers /\ StartMonitoringAt(s, path)) => UNCHANGED monVars
       /\ Len(installed'[s]) <= 1
       /\ installed'[s] # << >> <=> s \in watchers']_vars

\* a session watched under the second path, with a state saved and an event
\* raised, on which a further startMonitoring has no effect
C27_Witness ==
  /\ SessA \in watchers
  /\ installed[SessA] = <<"p2">>
  /\ HasState(SessA)
  /\ events # << >>

\* C28: stopMonitoring of a session that is not watched changes nothing: not
\* the watchers, not the saved states of any session, and no error.
C28_StopUnwatchedNoOp ==
  [][\A s \in Targets :
       (s \notin watchers /\ StopMonitoringCall(s)) => UNCHANGED monVars]_vars

\* one session is watched and has a state saved while the other is not
\* watched: a stopMonitoring of the other leaves all this alone
C28_Witness ==
  /\ SessB \notin watchers
  /\ installed[SessB] = << >>
  /\ SessA \in watchers
  /\ installed[SessA] # << >>
  /\ HasState(SessA)

\* the text of a string content has "error" in it, in upper or lower case
\* letters
HasErrorText(content) ==
  /\ content.kind = "string"
  /\ \E i \in 0..(Len(content.text) - 5) :
       /\ content.text[i + 1] \in {"e", "E"}
       /\ content.text[i + 2] \in {"r", "R"}
       /\ content.text[i + 3] \in {"r", "R"}
       /\ content.text[i + 4] \in {"o", "O"}
       /\ content.text[i + 5] \in {"r", "R"}

\* the kind of event the record is to give, "none" for no event
KindFor(e) ==
  CASE e.type = "tool_use" /\ e.name \in {"Edit", "Write"} -> "file-modified"
    [] e.type = "tool_use" /\ e.name = "ExitPlanMode" -> "plan-approved"
    [] /\ e.type = "tool_use" /\ e.name = "Bash"
       /\ \E k \in testKeywords : includes(e.command, k) -> "test-run"
    [] e.type = "tool_result" /\ (e.is_error \/ HasErrorText(e.content)) -> "error"
    [] OTHER -> None

\* C29: classifying a record raises at most one event, of the kind the
\* record's shape calls for and never "manual": file-modified carries the
\* basename of input.file_path, error carries the content text cut to 200
\* characters, and any other record raises none.
C29_ClassifyKinds ==
  [][\A e \in Entries :
       Classify(SessA, e) =>
         LET new == SubSeq(events', Len(events) + 1, Len(events'))
             kind == KindFor(e)
         IN /\ Len(new) <= 1
            /\ Len(new) = 0 <=> kind = None
            /\ \A i \in 1..Len(new) :
                 /\ new[i].kind = kind
                 /\ new[i].kind # "manual"
                 /\ new[i].sid = SessA
                 /\ (kind = "file-modified" /\ e.file_path # << >>) =>
                      new[i].fileName = e.file_path[Len(e.file_path)]
                 /\ (kind = "error" /\ e.content.kind = "string") =>
                      /\ Len(new[i].errorMessage) <= MaxErrorLen
                      /\ \A j \in 1..Len(e.content.text) :
                           j <= MaxErrorLen =>
                             /\ j <= Len(new[i].errorMessage)
                             /\ new[i].errorMessage[j] = e.content.text[j]]_vars

\* a Write record gave file-modified with the basename of its path, and a
\* tool_result without the error flag whose text of 205 characters starts
\* with "ERROR" gave an error event with the first 200 of them
C29_Witness ==
  /\ analyzed = ToolResult(FALSE, Text(LongErrorText))
  /\ Len(events) = 2
  /\ events[1] = [sid |-> SessA, kind |-> "file-modified", fileName |-> "c.ts"]
  /\ events[2].kind = "error"
  /\ events[2].errorMessage = SubSeq(LongErrorText, 1, MaxErrorLen)

\* C30: a terminal a send chooses only because its label is on the
\* allow-list (it is not bound to the target session and its label does not
\* contain the session id) is the terminal that has the focus.
C30_AllowListedOnlyIfFocused ==
  [][\A i \in Sends :
       LET s == sendState'[i].target
           t == sendState'[i].terminal
       IN (/\ Chooses(i)
           /\ ~BoundTo(s, t)
           /\ ~LabelContains(t, s)
           /\ LabelAllowed(t)) => t = activeTerminal]_vars

\* C31: the close of a terminal removes no binding but those to that
\* terminal: a session bound to another terminal, also one that was bound to
\* the closing terminal before, keeps its binding.
C31_CloseRemovesOnlyOwnBinding ==
  [][\A t \in Terms :
       CloseTerminal(t) =>
         \A s \in DOMAIN sessionTerminalMap :
           sessionTerminalMap[s] # t =>
             /\ s \in DOMAIN sessionTerminalMap'
             /\ sessionTerminalMap'[s] = sessionTerminalMap[s]]_vars

\* C32: while each of two sessions is bound to an open terminal of its own,
\* every write of a send reaches the terminal bound to the send's session,
\* whatever the other send is doing.
C32_ConcurrentSendsKeepApart ==
  [][\A i \in Calls :
       LET s == sendState[i].target
       IN (/\ SendWrite(i)
           /\ \A x \in Targets : x \in DOMAIN sessionTerminalMap
                                   /\ isOpen(sessionTerminalMap[x])
           /\ sessionTerminalMap[SessA] # sessionTerminalMap[SessB]) =>
            writeDest(i) = sessionTerminalMap[s]]_vars

\* C33: while the transcript only grows, no call takes the truncation branch,
\* however the calls of one session overlap: a saved state stays saved, its
\* size does not go down, and no line is handed to the parser twice.
C33_AppendOnlyNeverTruncates ==
  [][\A r \in Runs :
       LET s == runs[r].sid
       IN (Process(r) \/ Continue(r)) =>
            /\ runs'[r].outcome # "truncated"
            /\ HasState(s) =>
                 /\ HasState(s)'
                 /\ lastProcessedState'[s].size >= lastProcessedState[s].size
            /\ \A i, j \in 1..Len(classified'[s]) :
                 classified'[s][i] = classified'[s][j] => i = j]_vars

\* C34: whenever no process spawned under a well-formed identifier is alive,
\* a spawn for that identifier passes the checks at the head of spawn, also
\* after the exit of the last process and before its grace timer has fired.
C34_SpawnAcceptedWithoutLiveProcess ==
  \A id \in SessionIds :
    (isValidSessionId(id) /\ LiveProcs(id) = {}) => spawnAccepted(id)

\* session s has a binding to a terminal that is open
LiveBinding(s) ==
  s \in DOMAIN sessionTerminalMap /\ isOpen(sessionTerminalMap[s])

\* C35: a send for a session without live binding, while the label of an open
\* terminal contains the session id, chooses a terminal with such a label and
\* binds the session to it; and a binding made this way stays until its
\* terminal closes or the session is registered for another terminal.
C35_NameMatchRegistersForLater ==
  [][/\ \A i \in Sends : \A s \in Targets :
          (/\ StartSend(i, s, <<"esc">>)
           /\ ~LiveBinding(s)
           /\ \E t \in Range(terminals) : LabelContains(t, s)) =>
            /\ sendState'[i].terminal \in Range(terminals)
            /\ LabelContains(sendState'[i].terminal, s)
            /\ s \in DOMAIN sessionTerminalMap'
            /\ sessionTerminalMap'[s] = sendState'[i].terminal
     /\ \A m \in matched :
          (BoundTo(m.sid, m.terminal) /\ isOpen(m.terminal)') =>
            \/ BoundTo(m.sid, m.terminal)'
            \/ LiveBinding(m.sid)']_vars

\* C36: the plan service's auto-registration for session s changes nothing
\* when s has a live binding, and otherwise binds s only to a terminal whose
\* label contains 'claude' or is 'node' and that no other session is bound
\* to.
C36_AutoRegisterOnlyFreeClaudeTerminal ==
  [][\A s \in Targets :
       TryAutoRegisterTerminal(s) =>
         /\ LiveBinding(s) => UNCHANGED sessionTerminalMap
         /\ (~LiveBinding(s) /\ s \in DOMAIN sessionTerminalMap') =>
              LET t == sessionTerminalMap'[s]
              IN /\ LabelAllowed(t)
                 /\ \A b \in DOMAIN sessionTerminalMap \ {s} : ~BoundTo(b, t)]_vars

\* the registry entry of session b, and the buffer and the listeners of the
\* process registered for it, are the same after the step
PtySessionUnchanged(b) ==
  /\ b \in DOMAIN sessions <=> b \in DOMAIN sessions'
  /\ b \in DOMAIN sessions =>
       /\ sessions'[b] = sessions[b]
       /\ outputBuffer'[sessions[b]] = outputBuffer[sessions[b]]
       /\ listeners'[sessions[b]] = listeners[sessions[b]]

\* the step is an output or the exit of a process of session a, or a write,
\* a subscription or a disposal (by a caller or by a grace timer) for a
PtyStepOf(a) ==
  \/ \E q \in Procs :
       /\ procSid[q] = a
       /\ OnData(q, MAX_LINE_LENGTH + 1, IsolationChunks) \/ OnExit(q)
  \/ \E t \in timers : t.sid = a /\ TimerFire(t)
  \/ Dispose(a)
  \/ AddListener(a, "l1", FALSE)
  \/ Write(a, "y", FALSE)

\* the step belongs to a processTranscriptUpdate call for session a
MonStepOf(a) ==
  \E r \in Runs :
    /\ runs[r].sid = a
    /\ ReadFile(r) \/ Stat(r) \/ Process(r) \/ Continue(r)

\* C37: what happens for session a leaves every other session alone: its
\* registry entry, buffer and listeners, its saved transcript state, and no
\* event is raised in its name.
C37_SessionsIsolated ==
  [][\A a \in Targets : \A b \in Targets \ {a} :
       /\ PtyStepOf(a) => PtySessionUnchanged(b)
       /\ MonStepOf(a) =>
            /\ HasState(b) <=> HasState(b)'
            /\ HasState(b) => lastProcessedState'[b] = lastProcessedState[b]
            /\ classified'[b] = classified[b]
            /\ \A i \in (Len(events) + 1)..Len(events') : events'[i].sid = a]_vars

\* both sessions are registered, each with output in its buffer and a
\* listener, and the process of one has exited
C37_Witness ==
  /\ SessA \in DOMAIN sessions /\ SessB \in DOMAIN sessions
  /\ outputBuffer[sessions[SessA]] # << >>
  /\ outputBuffer[sessions[SessB]] # << >>
  /\ listeners[sessions[SessA]] # {} /\ listeners[sessions[SessB]] # {}
  /\ procState[sessions[SessA]] = "exited"

\* the step is a call of spawn for id
SpawnCall(id) ==
  \/ NewSession(id, Procs, TRUE)
  \/ ResumeSession(id, Procs, TRUE)
  \/ SpawnProcessFails(id)
  \/ SpawnWriteFails(id, <<"--resume", id>>, Procs)

\* C38: a spawn that throws registers nothing: afterwards the registry holds
\* no entry for the id that the call itself put there.
C38_FailedSpawnLeavesNoEntry ==
  [][\A id \in SessionIds :
       (SpawnCall(id) /\ threw' # None) =>
         (id \in DOMAIN sessions' =>
            id \in DOMAIN sessions /\ sessions'[id] = sessions[id])]_vars

\* the lines (numbered from 1) the call r hands to JSON.parse after this step
\* of processTranscriptUpdate: those handled in the step and those still to do
NewLines(r) ==
  LET s == runs[r].sid
  IN Range(SubSeq(classified'[s], Len(classified[s]) + 1, Len(classified'[s])))
       \cup Range(runs'[r].todo)

\* the step is the one in which call r passes the truncation and hash checks
PassesChecks(r) == Process(r) /\ runs'[r].outcome = "processed"

\* C39 as stated: the new lines start at an index in [0, n - 1], n the number
\* of non-empty lines, whatever the file holds; the first call for a session
\* parses every line.
C39_StartIndexInRange ==
  [][\A r \in Runs :
       PassesChecks(r) =>
         LET n == Len(runs[r].content)
         IN /\ \E k \in 1..n : NewLines(r) = k..n
            /\ ~HasState(runs[r].sid) => NewLines(r) = 1..n]_vars

\* C39, amended: on a file with at least one non-empty line the new lines
\* start at an index in [0, n - 1], so the last line is always parsed; on a
\* file with none the start index is 0 and nothing is parsed; the first call
\* for a session parses every line.
C39_StartIndexInRangeUnlessEmpty ==
  [][\A r \in Runs :
       PassesChecks(r) =>
         LET n == Len(runs[r].content)
         IN /\ n > 0 => \E k \in 1..n : NewLines(r) = k..n
            /\ n = 0 => NewLines(r) = {}
            /\ ~HasState(runs[r].sid) => NewLines(r) = 1..n]_vars

\* a line of 250 bytes was handled, the size saved for it puts the estimate
\* past the end of the two-line file, and the second call parsed the last line
C39_Witness ==
  /\ nRuns = 2
  /\ runs[1] = DoneRun(SessA, "processed")
  /\ runs[2] = DoneRun(SessA, "processed")
  /\ HasState(SessA)
  /\ lastProcessedState[SessA].of = <<LongLine, EditLine>>
  /\ classified[SessA] = <<1, 2>>
  /\ events = <<[sid |-> SessA, kind |-> "file-modified", fileName |-> "b.ts"]>>

====
